---- MODULE Spec2Model ----
(***************************************************************************)
(* Media delivery gateway of backend/app.py: the /api/songs listing        *)
(* handler (get_songs) with its thumbnail existence cache, modelled as a   *)
(* state machine.  One listing request is served at a time; the catalog    *)
(* (songs, song_tags) and the object store are fixed during a behaviour.   *)
(*                                                                         *)
(* A catalog row is a number r in 1..nRows: row r is the r-th row in       *)
(* updated_at-descending order, and its id column is the string SongId(r). *)
(***************************************************************************)
EXTENDS Integers, Sequences, FiniteSets, TLC

VARIABLES
    \* catalog service and object store
    nRows,                      \* rows of table songs
    tagMembers,                 \* rows joined to the tag "rock" in song_tags
    storeKeys,                  \* thumbnail keys present in the bucket
    storeUp,                    \* the store can be reached during this request
    now,                        \* time.time()
    \* attributes of the Flask app object
    thumbnail_existence_cache,  \* dict song_id -> bool
    thumbnail_cache_timestamp,  \* NoAttr until the first request sets it
    \* locals of get_songs
    pc,
    page_size,
    offset,
    random_mode,
    thumbnails_only,
    tag,
    expanded_limit,             \* Unbound while the name is not assigned
    total_count,
    songs,
    response,
    \* observation of the run (not read by the handler)
    requestsLeft,
    reqOffset,                  \* the offset parameter as received
    rawLimit,                   \* the limit parameter as text
    rawOffset,                  \* the offset parameter as text
    fetches,                    \* ranges asked of the catalog by this request
    lookups,                    \* existence lookups of this request, in order
    prevCache,                  \* the cache as it was when the request arrived
    prevTimestamp,              \* the timestamp as it was when the request arrived
    epochProbes                 \* head_object calls per song_id in this epoch

listingVars == <<nRows, tagMembers, storeKeys, storeUp, now,
                 thumbnail_existence_cache, thumbnail_cache_timestamp,
                 pc, page_size, offset, random_mode, thumbnails_only, tag,
                 expanded_limit, total_count, songs, response,
                 requestsLeft, reqOffset, rawLimit, rawOffset, fetches,
                 lookups, prevCache, prevTimestamp, epochProbes>>

VARIABLES
    \* the /api/stream/<song_id> handler (stream_song)
    songRecords,                \* rows of table songs, by id, as select('*')
    audioObject,                \* <<size>> of the object at storage_path, or <<>>
    storeFault,                 \* how the store treats this request
    streamPc,
    method,
    stream_song_id,             \* song_id of stream_song: the id of the URL
    range_header,               \* <<first, last>> of Range: bytes=first-last
    b2_response,                \* what requests.get returned
    pendingChunks,              \* chunks iter_content has yet to yield
    heldChunks,                 \* chunks generate() has pulled and not yielded
    flask_response,             \* status and headers sent to the client
    clientBody,                 \* chunks the client has received
    catalogQueries,             \* observation: lookups in table songs
    presignedUrls,              \* observation: generate_presigned_url calls
    upstreamRequests,           \* observation: Range of each requests.get
    streamRequestsLeft

streamVars == <<songRecords, audioObject, storeFault, streamPc, method,
                stream_song_id, range_header, b2_response, pendingChunks,
                heldChunks, flask_response, clientBody, catalogQueries, presignedUrls,
                upstreamRequests, streamRequestsLeft>>

VARIABLES
    \* the /api/thumbnail/<song_id> handler (api_get_thumbnail)
    cacheDir,                   \* thumbnails_cache: file name -> mtime, content
    thumbTime,                  \* time.time()
    thumbPc,
    thumb_song_id,              \* song_id of api_get_thumbnail
    thumbResponse,              \* what send_file or Response returned
    dirAtLookup,                \* observation: the directory at line 588
    dirAtSweep,                 \* observation: the directory at line 572
    removedBySweep,             \* observation: files removed at lines 576-578
    fetchOutcome,               \* observation: the store's answer
    downloadKey,                \* observation: formatted_id of the download
    inserted,                   \* observation: files created so far
    fillLeft,                   \* requests to come that each ask for a new id
    filling,                    \* this request is one of those
    thumbRequestsLeft

thumbVars == <<cacheDir, thumbTime, thumbPc, thumb_song_id, thumbResponse,
               dirAtLookup, dirAtSweep, removedBySweep, fetchOutcome, downloadKey,
               inserted, fillLeft, filling, thumbRequestsLeft>>

VARIABLES
    \* the key derivation applied to one id and to a sibling of it
    keyPc,
    keyId,                      \* a song id
    keySibling,                 \* the same id with other leading zeros
    probeKey,                   \* formatted_id of get_songs for keyId
    fetchKey,                   \* formatted_id of api_get_thumbnail for keyId
    siblingKey,                 \* formatted_id of keySibling
    rederivedKey,               \* formatted_id of fetchKey
    scriptKey                   \* formatted_id of format_thumbnail_path

keyVars == <<keyPc, keyId, keySibling, probeKey, fetchKey, siblingKey,
             rederivedKey, scriptKey>>

VARIABLES
    \* get_songs calls running at the same time, each on its own thread, up
    \* to the thumbnail filter; they share now, thumbnail_existence_cache and
    \* thumbnail_cache_timestamp with the listing handler above
    workerPc,                   \* per thread: where it is in get_songs
    workerSong,                 \* per thread: the row whose thumbnail it checks
    workerProbeEpoch,           \* observation: resets done when its probe began
    entryEpoch,                 \* observation: the same, per cache entry
    resets,                     \* observation: executions of line 196
    expiries,                   \* observation: times the cache age passed 1 hour
    ticksLeft

workerVars == <<workerPc, workerSong, workerProbeEpoch, entryEpoch, resets,
                expiries, ticksLeft>>

\* what of the listing handler the threads share
sharedCache == <<now, thumbnail_existence_cache, thumbnail_cache_timestamp>>

\* the rest of the listing handler
listingLocals == <<nRows, tagMembers, storeKeys, storeUp, pc, page_size,
                   offset, random_mode, thumbnails_only, tag, expanded_limit,
                   total_count, songs, response, requestsLeft, reqOffset,
                   rawLimit, rawOffset, fetches, lookups, prevCache,
                   prevTimestamp, epochProbes>>

VARIABLES
    \* api_get_thumbnail calls running at the same time, each on its own
    \* thread; they share cacheDir and thumbTime with the handler above
    threadPc,                   \* per thread: where it is in api_get_thumbnail
    threadSongId,               \* per thread: song_id
    threadResponse,             \* per thread: what it answered
    threadRemoved,              \* per thread: files its sweep removed
    threadsLeft                 \* requests to come

thumbThreadVars == <<threadPc, threadSongId, threadResponse, threadRemoved,
                     threadsLeft>>

\* what of the thumbnail handler the threads share
sharedDir == <<cacheDir, thumbTime>>

\* the rest of the thumbnail handler
thumbLocals == <<thumbPc, thumb_song_id, thumbResponse, dirAtLookup,
                 dirAtSweep, removedBySweep, fetchOutcome, downloadKey,
                 inserted, fillLeft, filling, thumbRequestsLeft>>

VARIABLES
    \* like_song and unlike_song calls, each on its own thread
    liked_songs,                \* rows of table liked_songs
    nextRowId,                  \* the id the table gives its next row
    pairIsUnique,               \* the table rejects a second row of a pair
    likePc,                     \* per thread: where it is in its handler
    likeRequest,                \* per thread: kind, user and songId
    found_song_id,              \* per thread: found_song_id of like_song
    likeResponse,               \* per thread: status and message
    lastLike,                   \* observation, per thread: its latest like
                                \* that inserted a row, and the row's id
    likesLeft                   \* requests to come

likeVars == <<liked_songs, nextRowId, pairIsUnique, likePc, likeRequest,
              found_song_id, likeResponse, lastLike, likesLeft>>

concurrentVars == <<workerVars, thumbThreadVars, likeVars>>

outsideListing == <<streamVars, thumbVars, keyVars, concurrentVars>>

outsideStream == <<listingVars, thumbVars, keyVars, concurrentVars>>

outsideThumbnail == <<listingVars, streamVars, keyVars, concurrentVars>>

outsideKeys == <<listingVars, streamVars, thumbVars, concurrentVars>>

outsideWorkers == <<listingLocals, streamVars, thumbVars, keyVars,
                    thumbThreadVars, likeVars>>

outsideThumbThreads == <<listingVars, streamVars, thumbLocals, keyVars,
                         workerVars, likeVars>>

outsideLikes == <<listingVars, streamVars, thumbVars, keyVars, workerVars,
                  thumbThreadVars>>

vars == <<listingVars, streamVars, thumbVars, keyVars, concurrentVars>>

----------------------------------------------------------------------------
(* Bounds of the model *)

MaxRows == 8
MaxRequests == 2

\* Catalogs of more than FullRows rows carry at most SparseThumbs thumbnails;
\* behaviours of several requests run on catalogs of at most CacheRows rows.
SparseThumbs == 1
MaxStreamRequests == 1
MaxThumbRequests == 2
MaxIdLen == 7
MaxPadZeros == 2
MaxWorkers == 2
MaxTicks == 2
MaxThreadRequests == 3
MaxLikeRequests == 3
FullRows == MaxRows \div 2
CacheRows == MaxRows \div 4

(* Program constants *)

MaxPageSize == 30
OversampleFactor == 3
CacheTTL == 3600
KeyWidth == 6
IdWidth == 7
ChunkSize == 8192
Capacity == 1000
TrimBatch == 200
DiskTTL == 86400

\* files in the directory when the sweep first has something to remove
FillTarget == Capacity + 1

\* length of an error document of the store
ErrorDocumentSize == 64

\* a catalog of more rows than the largest page
LargeRows == MaxPageSize + MaxPageSize \div 10

NoAttr == -1
Unbound == -1
NoTag == ""
TagsTable == {"rock"}

\* Query parameters arrive as text: sequences of characters
DigitChars == <<"0", "1", "2", "3", "4", "5", "6", "7", "8", "9">>

DigitValue(c) == CHOOSE d \in 0..9 : DigitChars[d + 1] = c

IsDigitChar(c) == \E d \in 0..9 : DigitChars[d + 1] = c

\* int(text) returns a value: an optional sign, then one or more digits
IsIntLiteral(text) ==
    LET body == IF text # <<>> /\ Head(text) \in {"-", "+"}
                THEN Tail(text) ELSE text
    IN  /\ body # <<>>
        /\ \A i \in 1..Len(body) : IsDigitChar(body[i])

RECURSIVE DecimalValue(_)
DecimalValue(body) ==
    IF body = <<>> THEN 0
    ELSE 10 * DecimalValue(SubSeq(body, 1, Len(body) - 1))
         + DigitValue(body[Len(body)])

\* int(text) for a text that IsIntLiteral
ParseInt(text) ==
    IF Head(text) = "-" THEN 0 - DecimalValue(Tail(text))
    ELSE IF Head(text) = "+" THEN DecimalValue(Tail(text))
    ELSE DecimalValue(text)

\* the texts int() returns a value for, each with that value
ParsedInts(texts) ==
    {[text |-> r, value |-> ParseInt(r)] : r \in {x \in texts : IsIntLiteral(x)}}

\* Request parameters that are enumerated
RawLimits == {<<"0">>, <<"1">>, <<"2">>, <<"3", "1">>, <<"x">>, <<>>}
RawOffsets == {<<"0">>, <<"1">>, <<"1", ".", "5">>}
ParsedLimits == ParsedInts(RawLimits)
ParsedOffsets == ParsedInts(RawOffsets)
Limits == {p.value : p \in ParsedLimits}
Offsets == {p.value : p \in ParsedOffsets}
RejectedParameters ==
    {p \in RawLimits \X RawOffsets : ~(IsIntLiteral(p[1]) /\ IsIntLiteral(p[2]))}
Tags == {NoTag, "rock", "jazz"}
Delays == {CacheTTL, CacheTTL + 1}
Perms == {"fwd", "rev"}

Min(a, b) == IF a < b THEN a ELSE b
Max(a, b) == IF a > b THEN a ELSE b

----------------------------------------------------------------------------
(* Strings of decimal digits, as sequences of digits *)

RECURSIVE Digits(_)
Digits(n) == IF n < 10 THEN <<n>> ELSE Append(Digits(n \div 10), n % 10)

RECURSIVE LStripZeros(_)
LStripZeros(s) ==
    IF s # <<>> /\ Head(s) = 0 THEN LStripZeros(Tail(s)) ELSE s

RECURSIVE ZFill(_, _)
ZFill(s, w) == IF Len(s) >= w THEN s ELSE ZFill(<<0>> \o s, w)

\* the id column of row r
SongId(r) == ZFill(Digits(r), IdWidth)

\* thumbnails/<formatted_id>.png, represented by formatted_id
ThumbnailPath(song_id) == ZFill(LStripZeros(song_id), KeyWidth)

\* the bucket layout thumbnails/000XXX.png
BucketKey(r) == ZFill(Digits(r), KeyWidth)

----------------------------------------------------------------------------
(* Collaborators: catalog service and object store *)

Reverse(s) == [i \in 1..Len(s) |-> s[Len(s) + 1 - i]]

\* the rows lo..hi that are in `members`, most recently updated first
RECURSIVE RowsBetween(_, _, _)
RowsBetween(lo, hi, members) ==
    IF lo > hi THEN <<>>
    ELSE IF lo = hi THEN (IF lo \in members THEN <<lo>> ELSE <<>>)
    ELSE RowsBetween(lo, (lo + hi) \div 2, members)
         \o RowsBetween((lo + hi) \div 2 + 1, hi, members)

\* the rows of `members` from row r on, most recently updated first
RowsFrom(r, members) == RowsBetween(r, nRows, members)

\* .order('updated_at', desc=True) or .order('random()'): one ordering per query
Ordered(members, rnd, perm) ==
    IF rnd /\ perm = "rev" THEN Reverse(RowsFrom(1, members))
    ELSE RowsFrom(1, members)

\* .range(from, to): the rows at positions from..to (0-based, inclusive)
Range(rows, from, to) ==
    IF from >= Len(rows) \/ to < from THEN <<>>
    ELSE SubSeq(rows, from + 1, Min(to + 1, Len(rows)))

\* s3_client.head_object: succeeds iff the store answers and holds the key
HeadObject(key, up) == up /\ key \in storeKeys

----------------------------------------------------------------------------
(* get_songs *)

EmptyCache == [k \in {} |-> FALSE]

\* the refresh threshold mistyped tenfold
CacheExpiresTenfoldLate(ts, t) == ts # NoAttr /\ t - ts > 10 * CacheTTL

CacheExpired(ts, t) == ts # NoAttr /\ t - ts > CacheTTL

\* the cached value tested for truth instead of for None
CacheHitWhenTrue(cache, song_id) ==
    song_id \in DOMAIN cache /\ cache[song_id]

\* app.thumbnail_existence_cache.get(song_id) is not None
CacheHit(cache, song_id) == song_id \in DOMAIN cache

\* The filter loop over `rows`; st holds what the loop has built so far: the
\* accepted rows, the cache and the lookups made.
RECURSIVE FilterLoop(_, _, _, _)
FilterLoop(rows, st, ps, up) ==
    IF rows = <<>> \/ Len(st.songs) >= ps
    THEN st
    ELSE LET song == Head(rows)
             song_id == SongId(song)
             hit == CacheHit(st.cache, song_id)
             has_thumbnail ==
                 IF hit THEN st.cache[song_id]
                 ELSE HeadObject(ThumbnailPath(song_id), up)
             cache2 == IF hit THEN st.cache
                       ELSE (song_id :> has_thumbnail) @@ st.cache
             entry == [row |-> song, id |-> song_id, hit |-> hit,
                       verdict |-> has_thumbnail]
         IN  FilterLoop(Tail(rows),
                        [songs |-> IF has_thumbnail
                                   THEN Append(st.songs, song) ELSE st.songs,
                         cache |-> cache2,
                         lookups |-> Append(st.lookups, entry)],
                        ps, up)

\* The thumbnail filter over `rows`, appending the accepted rows to `acc`
\* until page_size rows are held.
FilterSongs(rows, acc, cache, log, ps, up) ==
    FilterLoop(rows, [songs |-> acc, cache |-> cache, lookups |-> log], ps, up)

\* head_object calls of a lookup log, per song_id
CountProbes(log, counts) ==
    LET probed == {i \in 1..Len(log) : ~log[i].hit}
    IN  [id \in DOMAIN counts \cup {log[i].id : i \in probed} |->
            (IF id \in DOMAIN counts THEN counts[id] ELSE 0)
            + Cardinality({i \in probed : log[i].id = id})]

\* min() left out: the limit as parsed
LimitNotClamped(limit) == limit

ClampLimit(limit) == Min(limit, MaxPageSize)

ExpandedLimit(ps, tonly) == IF tonly THEN ps * OversampleFactor ELSE ps

NextOffset(off, expanded) == off + expanded

NextLimit(ps) == ps

\* line 403 left out: the offset stays where it was
OffsetNotAdvanced(next_offset, next_limit) == offset

OffsetAfterBatch(next_offset, next_limit) == next_offset + next_limit

\* the catalog count reported instead
ResponseTotalIsCatalogCount(sgs, total) == total

ResponseTotal(sgs, total) == Len(sgs)

HasMore(sgs, ps, off, total) == Len(sgs) > ps \/ (off + Len(sgs)) < total

Listing(sgs, total, off, ps) ==
    [status |-> 200,
     songs |-> SubSeq(sgs, 1, Min(ps, Len(sgs))),
     total |-> ResponseTotal(sgs, total),
     offset |-> off,
     limit |-> ps,
     has_more |-> HasMore(sgs, ps, off, total)]

\* the early returns of the tag branch
EmptyListing(off, ps) ==
    [status |-> 200, songs |-> <<>>, total |-> 0, offset |-> off,
     limit |-> ps, has_more |-> FALSE]

\* jsonify({'error': str(e)}), 500: a body without listing fields
ErrorResponse(off, ps) ==
    [status |-> 500, songs |-> <<>>, total |-> 0, offset |-> off,
     limit |-> ps, has_more |-> FALSE]

\* the parameters are answered with 500 by the handler of line 420
InvalidParametersAnsweredAsServerError ==
    [status |-> 500, songs |-> <<>>, total |-> 0, offset |-> 0,
     limit |-> 0, has_more |-> FALSE]

\* jsonify({'error': 'Invalid parameters'}), 400
InvalidParametersResponse ==
    [status |-> 400, songs |-> <<>>, total |-> 0, offset |-> 0,
     limit |-> 0, has_more |-> FALSE]

NoResponse ==
    [status |-> 0, songs |-> <<>>, total |-> 0, offset |-> 0,
     limit |-> 0, has_more |-> FALSE]

----------------------------------------------------------------------------
(* stream_song: values *)

\* song ids of the URL, as text
TestId == <<"t", "e", "s", "t">>
StreamIds == {TestId, <<"1">>, <<"7">>, <<"7", ":", "1">>, <<"9">>}
CatalogIds == {<<"1">>, <<"7">>}
Methods == {"GET", "HEAD"}

\* a row of table songs: how its storage_path column reads
RecordKinds == {"no_column", "null", "mp3", "m4a", "aac", "ogg"}

ObjectSizes == {0, ChunkSize - 1, ChunkSize + 1, 2 * ChunkSize + 1}

\* Range headers of the client: none, or bytes=first-last
RangeHeaders ==
    {<<>>, <<0, 0>>, <<0, ChunkSize>>, <<1, ChunkSize - 2>>,
     <<ChunkSize, 2 * ChunkSize>>, <<2, 1>>}

StoreFaults == {"none", "refused", "forbidden"}

\* line 429: song_id.split(':')[0]
RECURSIVE BeforeColon(_)
BeforeColon(text) ==
    IF text = <<>> \/ Head(text) = ":" THEN <<>>
    ELSE <<Head(text)>> \o BeforeColon(Tail(text))

\* the sentinel ids without "1"
SentinelIsTestOnly == {TestId}

SentinelIds == {TestId, <<"1">>}

ContentType(kind) ==
    CASE kind = "mp3" -> "audio/mpeg"
      [] kind = "m4a" -> "audio/mp4"
      [] kind = "aac" -> "audio/aac"
      [] OTHER -> "audio/mpeg"

\* A piece of a body: bytes from..to of the stored object, or of an error
\* document of the store.
Piece(kind, from, to) == [kind |-> kind, from |-> from, to |-> to]

PieceLen(piece) == piece.to - piece.from + 1

\* iter_content(chunk_size=8192) over bytes lo..hi of the object
RECURSIVE Chunks(_, _, _)
Chunks(kind, lo, hi) ==
    IF lo > hi THEN <<>>
    ELSE <<Piece(kind, lo, Min(hi, lo + ChunkSize - 1))>>
         \o Chunks(kind, lo + ChunkSize, hi)

UpstreamResponse(status, clen, crange, aranges, chunks) ==
    [status |-> status, content_length |-> clen, content_range |-> crange,
     accept_ranges |-> aranges, chunks |-> chunks]

NoB2Response == UpstreamResponse(0, <<>>, <<>>, <<>>, <<>>)

StoreError(status) ==
    UpstreamResponse(status, <<ErrorDocumentSize>>, <<>>, <<>>,
                     Chunks("error", 0, ErrorDocumentSize - 1))

\* The store's answer to GET presigned_url with the forwarded headers, when
\* the connection holds: a satisfiable range gets 206 and the bytes asked
\* for (the last position cut to the object's end), no range or one with
\* first > last gets 200 and the whole object.
GetObject(object, range, fault) ==
    IF fault = "forbidden" THEN StoreError(403)
    ELSE IF object = <<>> THEN StoreError(404)
    ELSE LET size == object[1]
         IN  IF range = <<>> \/ range[1] > range[2]
             THEN UpstreamResponse(200, <<size>>, <<>>, <<"bytes">>,
                                   Chunks("object", 0, size - 1))
             ELSE IF range[1] >= size
             THEN StoreError(416)
             ELSE LET last == Min(range[2], size - 1)
                  IN  UpstreamResponse(206, <<last - range[1] + 1>>,
                                       <<range[1], last, size>>, <<"bytes">>,
                                       Chunks("object", range[1], last))

\* Status and headers of a response to the client.  A header is <<>> when
\* absent, <<value>> when present.
ClientResponse(status, ctype, clen, crange, aranges, cache_control, error) ==
    [status |-> status, content_type |-> ctype, content_length |-> clen,
     content_range |-> crange, accept_ranges |-> aranges,
     cache_control |-> cache_control, error |-> error,
     \* the Access-Control-Allow-Origin header lines, in order
     allow_origin |-> <<>>]

\* lines 675-681: headers.add appends a header line to every response
AfterRequest(resp) ==
    [resp EXCEPT !.allow_origin = Append(@, "*")]

\* lines 532-539: headers.update sets the caching headers and one
\* Access-Control-Allow-Origin line
CacheAndCorsHeaders(resp) ==
    [resp EXCEPT !.cache_control = <<"public, max-age=86400">>,
                     !.allow_origin = <<"*">>]

\* the chunk is sent in place of what was sent before
YieldForgetsEarlier(body, chunk) == <<chunk>>

\* lines 503-504: if chunk: yield chunk
Yield(body, chunk) ==
    IF PieceLen(chunk) > 0 THEN Append(body, chunk) ELSE body

\* the next chunk is read while earlier ones wait to be sent
PullsAhead(held) == TRUE

\* lines 502-504: the loop body, with its yield, ends before iter_content is
\* asked again
MayPull(held) == held = <<>>

NoClientResponse == ClientResponse(0, "", <<>>, <<>>, <<>>, <<>>, "")

\* every error answered as a server error
JsonErrorAsServerError(status, error) ==
    ClientResponse(500, "application/json", <<>>, <<>>, <<>>, <<>>, error)

\* jsonify({'error': ...}), status
JsonError(status, error) ==
    ClientResponse(status, "application/json", <<>>, <<>>, <<>>, <<>>, error)

\* lines 437-440
SentinelResponse ==
    ClientResponse(200, "audio/mpeg", <<0>>, <<>>, <<"bytes">>, <<>>, "")

\* line 511 left out: Content-Range is not copied
RelayWithoutContentRange(b2, ctype) ==
    CacheAndCorsHeaders(
        IF b2.status = 206
        THEN ClientResponse(206, ctype, b2.content_length, <<>>,
                            b2.accept_ranges, <<>>, "")
        ELSE ClientResponse(200, ctype, b2.content_length, <<>>, <<"bytes">>,
                            <<>>, ""))

\* lines 532-539 left out
RelayWithoutCachingHeaders(b2, ctype) ==
    IF b2.status = 206
    THEN ClientResponse(206, ctype, b2.content_length, b2.content_range,
                        b2.accept_ranges, <<>>, "")
    ELSE ClientResponse(200, ctype, b2.content_length, <<>>, <<"bytes">>,
                        <<>>, "")

\* lines 507-539
Relay(b2, ctype) ==
    CacheAndCorsHeaders(
        IF b2.status = 206
        THEN ClientResponse(206, ctype, b2.content_length, b2.content_range,
                            b2.accept_ranges, <<>>, "")
        ELSE ClientResponse(200, ctype, b2.content_length, <<>>, <<"bytes">>,
                            <<>>, ""))

StreamIdle ==
    /\ songRecords = <<>>
    /\ audioObject = <<>>
    /\ storeFault = "none"
    /\ streamPc = "idle"
    /\ method = "GET"
    /\ stream_song_id = <<>>
    /\ range_header = <<>>
    /\ b2_response = NoB2Response
    /\ pendingChunks = <<>>
    /\ heldChunks = <<>>
    /\ flask_response = NoClientResponse
    /\ clientBody = <<>>
    /\ catalogQueries = 0
    /\ presignedUrls = 0
    /\ upstreamRequests = <<>>
    /\ streamRequestsLeft = 0

----------------------------------------------------------------------------
(* api_get_thumbnail: values *)

\* song ids of thumbnail requests that are enumerated: two spellings of
\* one number, and the id of the last file of a full cache directory
ThumbIds == {<<7>>, <<0, 0, 7>>, Digits(Capacity)}

Waits == {1, DiskTTL, DiskTTL + 1}

\* what the store answers to the download: the object in one of two
\* versions, status 404, or nothing within the timeout
FetchOutcomes == {"v1", "v2", "missing", "timeout"}

\* zfill left out
FetchPathNotPadded(id) == LStripZeros(id)

\* lines 605-614: the key of the download, without 'thumbnails/' and '.png'
ThumbnailFetchPath(id) == ZFill(LStripZeros(id), KeyWidth)

\* every file counts as fresh
AlwaysFresh(cache_age) == TRUE

\* line 595
IsFresh(cache_age) == cache_age < DiskTTL

CacheFile(mtime, content) == [mtime |-> mtime, content |-> content]

EmptyDir == <<>>

\* the n-th least number of a set of more than n numbers
NthLeast(numbers, n) ==
    CHOOSE x \in numbers : Cardinality({y \in numbers : y <= x}) = n

\* the n files of greatest modification time
Newest(dir, n) ==
    IF Cardinality(DOMAIN dir) <= n THEN DOMAIN dir
    ELSE UNION {{f \in DOMAIN dir : dir[f].mtime > last} :
                last \in {NthLeast({dir[f].mtime : f \in DOMAIN dir},
                                   Cardinality(DOMAIN dir) - n)}}

\* lines 575-576: the n files of least modification time (no two files of
\* the directory were written in the same second)
Oldest(dir, n) ==
    IF Cardinality(DOMAIN dir) <= n THEN DOMAIN dir
    ELSE UNION {{f \in DOMAIN dir : dir[f].mtime <= last} :
                last \in {NthLeast({dir[f].mtime : f \in DOMAIN dir}, n)}}

\* os.remove of each file of a set
RemoveFiles(dir, files) == [f \in (DOMAIN dir) \ files |-> dir[f]]

\* lines 572-578
FilesToRemove(dir) ==
    IF Cardinality(DOMAIN dir) > Capacity THEN Oldest(dir, TrimBatch) ELSE {}

\* lines 633-634: open(cache_path, 'wb') and write
PutFile(dir, name, mtime, content) ==
    [f \in (DOMAIN dir) \cup {name} |->
        IF f = name THEN CacheFile(mtime, content) ELSE dir[f]]

ThumbnailResponse(source, content) == [source |-> source, content |-> content]

NoThumbnailResponse == ThumbnailResponse("", "")

ThumbIdle ==
    /\ cacheDir = EmptyDir
    /\ thumbTime = 0
    /\ thumbPc = "idle"
    /\ thumb_song_id = <<>>
    /\ dirAtLookup = EmptyDir
    /\ dirAtSweep = EmptyDir
    /\ removedBySweep = {}
    /\ thumbResponse = NoThumbnailResponse
    /\ fetchOutcome = ""
    /\ downloadKey = <<>>
    /\ inserted = 0
    /\ fillLeft = 0
    /\ filling = FALSE
    /\ thumbRequestsLeft = 0

----------------------------------------------------------------------------
(* Thumbnail key derivation: values *)

IdDigits == {0, 1, 9}

\* strings of 1..n digits
RECURSIVE DigitStrings(_)
DigitStrings(n) ==
    IF n = 0 THEN {}
    ELSE {<<d>> : d \in IdDigits}
         \cup DigitStrings(n - 1)
         \cup {Append(s, d) : s \in DigitStrings(n - 1), d \in IdDigits}

DecimalIds == DigitStrings(MaxIdLen)

\* the number a string of digits writes
RECURSIVE NumberOf(_)
NumberOf(id) ==
    IF id = <<>> THEN 0
    ELSE 10 * NumberOf(SubSeq(id, 1, Len(id) - 1)) + id[Len(id)]

RECURSIVE Zeros(_)
Zeros(n) == IF n = 0 THEN <<>> ELSE <<0>> \o Zeros(n - 1)

\* test_thumbnail_paths.py, lines 16-20: the key of the script, without
\* 'thumbnails/' and '.png'
FormatThumbnailPath(id) ==
    IF Len(id) = IdWidth /\ Head(id) = 0 THEN Tail(id) ELSE id

KeyIdle ==
    /\ keyPc = "idle"
    /\ keyId = <<>>
    /\ keySibling = <<>>
    /\ probeKey = <<>>
    /\ fetchKey = <<>>
    /\ siblingKey = <<>>
    /\ rederivedKey = <<>>
    /\ scriptKey = <<>>

----------------------------------------------------------------------------
(* Concurrent get_songs calls: values *)

Workers == 1..MaxWorkers

\* rows whose thumbnails the threads check
WorkerSongs == {1, 2}

WorkerIdle ==
    /\ workerPc = [w \in Workers |-> "idle"]
    /\ workerSong = [w \in Workers |-> 0]
    /\ workerProbeEpoch = [w \in Workers |-> 0]
    /\ entryEpoch = EmptyCache
    /\ resets = 0
    /\ expiries = 0
    /\ ticksLeft = 0

----------------------------------------------------------------------------
(* Concurrent api_get_thumbnail calls: values *)

\* song ids the threads ask for: the oldest file of a full directory, its
\* newest, and one that is not cached
ThreadIds == {Digits(1), Digits(Capacity), Digits(Capacity + 2)}

\* the exception leaves the view function: the server answers 500
UnhandledError == ThumbnailResponse("error", "FileNotFoundError")

ThumbThreadIdle ==
    /\ threadPc = [t \in Workers |-> "idle"]
    /\ threadSongId = [t \in Workers |-> <<>>]
    /\ threadResponse = [t \in Workers |-> NoThumbnailResponse]
    /\ threadRemoved = [t \in Workers |-> {}]
    /\ threadsLeft = 0

----------------------------------------------------------------------------
(* like_song and unlike_song: values *)

\* ids of table songs: text, as upload_to_supabase.py writes them
SongsTable == {<<1, 2, 3>>, <<4, 5>>}

\* songId of the requests: an id of the table, the same with a leading
\* zero, a part of an id, and an id nothing matches
LikeSongIds == {<<1, 2, 3>>, <<0, 1, 2, 3>>, <<5>>, <<9>>}

Users == {"u1", "u2"}

\* str.isdigit()
IsDigitString(text) == text # <<>>

\* SQL: id LIKE '%text%'
Contains(id, text) ==
    \E i \in 1..(Len(id) - Len(text) + 1) :
       SubSeq(id, i, i + Len(text) - 1) = text

\* lines 800-849: the ids found_song_id may get; none when the song is not
\* found.  The pattern query takes the first row the database returns.
FoundSongIds(song_id) ==
    IF song_id \in SongsTable THEN {song_id}
    ELSE IF IsDigitString(song_id) /\ song_id \in SongsTable
    THEN {song_id}
    ELSE IF /\ Head(song_id) = 0
            /\ LStripZeros(song_id) # <<>>
            /\ LStripZeros(song_id) \in SongsTable
    THEN {LStripZeros(song_id)}
    ELSE {id \in SongsTable : Contains(id, song_id)}

\* lines 920-932: song_id after the lookups of unlike_song
UnlikeSongId(song_id) ==
    IF song_id \in SongsTable THEN song_id
    ELSE IF IsDigitString(song_id) /\ song_id \in SongsTable
    THEN song_id
    ELSE song_id

LikedSong(id, user_id, song_id) ==
    [id |-> id, user_id |-> user_id, song_id |-> song_id]

\* .eq('user_id', user_id).eq('song_id', song_id)
RowsOf(table, user_id, song_id) ==
    {row \in table : row.user_id = user_id /\ row.song_id = song_id}

LikeRequest(kind, user_id, song_id) ==
    [kind |-> kind, user_id |-> user_id, song_id |-> song_id]

NoLikeRequest == LikeRequest("", "", <<>>)

LikeResponse(status, message) == [status |-> status, message |-> message]

NoLikeResponse == LikeResponse(0, "")

NoLike == [request |-> NoLikeRequest, row |-> 0]

LikeIdle ==
    /\ liked_songs = {}
    /\ nextRowId = 1
    /\ pairIsUnique = FALSE
    /\ likePc = [t \in Workers |-> "idle"]
    /\ likeRequest = [t \in Workers |-> NoLikeRequest]
    /\ found_song_id = [t \in Workers |-> <<>>]
    /\ likeResponse = [t \in Workers |-> NoLikeResponse]
    /\ lastLike = [t \in Workers |-> NoLike]
    /\ likesLeft = 0

ConcurrentIdle == WorkerIdle /\ ThumbThreadIdle /\ LikeIdle

----------------------------------------------------------------------------
(* State machine *)

ListingInit ==
    /\ nRows \in (0..MaxRows) \cup {LargeRows}
    /\ requestsLeft \in {1, MaxRequests}
    /\ requestsLeft > 1 => nRows <= CacheRows
    /\ tagMembers = {r \in 1..nRows : r % 2 = 1}
    /\ IF nRows = LargeRows
       THEN storeKeys = {BucketKey(r) : r \in 1..nRows}
       ELSE \E T \in SUBSET (1..nRows) :
               /\ nRows <= FullRows \/ Cardinality(T) <= SparseThumbs
               /\ storeKeys = {BucketKey(r) : r \in T}
    /\ storeUp = TRUE
    /\ now = 0
    /\ thumbnail_existence_cache = EmptyCache
    /\ thumbnail_cache_timestamp = NoAttr
    /\ pc = "idle"
    /\ page_size = 0
    /\ offset = 0
    /\ random_mode = FALSE
    /\ thumbnails_only = FALSE
    /\ tag = NoTag
    /\ expanded_limit = Unbound
    /\ total_count = 0
    /\ songs = <<>>
    /\ response = NoResponse
    /\ reqOffset = 0
    /\ rawLimit = <<>>
    /\ rawOffset = <<>>
    /\ fetches = <<>>
    /\ lookups = <<>>
    /\ prevCache = EmptyCache
    /\ prevTimestamp = NoAttr
    /\ epochProbes = EmptyCache

Init == ListingInit /\ StreamIdle /\ ThumbIdle /\ KeyIdle /\ ConcurrentIdle

\* One catalog window asked for: table, first and last position.
Fetch(table, from, to) == [table |-> table, from |-> from, to |-> to]

\* Lines 174-344: parameters, cache refresh, first window, first filter.
GetSongs(limit, off, rnd, tonly, tg, dt, up, perm) ==
    /\ pc = "idle"
    /\ requestsLeft > 0
    /\ LET t == now + dt
           ps == ClampLimit(limit)
           expired == CacheExpired(thumbnail_cache_timestamp, t)
           cache0 == IF expired THEN EmptyCache ELSE thumbnail_existence_cache
           probes0 == IF expired THEN EmptyCache ELSE epochProbes
           ts == IF thumbnail_cache_timestamp = NoAttr \/ expired
                 THEN t ELSE thumbnail_cache_timestamp
           tagged == tg # NoTag
           tagFound == tg \in TagsTable
           song_ids == Range(Ordered(tagMembers, rnd, perm), off,
                             off + ps * OversampleFactor - 1)
           early == tagged /\ (~tagFound \/ song_ids = <<>>)
           expanded == IF tagged THEN Unbound ELSE ExpandedLimit(ps, tonly)
           window ==
               IF tagged
               THEN RowsFrom(1, {song_ids[i] : i \in 1..Len(song_ids)})
               ELSE Range(Ordered(1..nRows, rnd, perm), off, off + expanded - 1)
           filtered ==
               IF tonly /\ ~early
               THEN FilterSongs(window, <<>>, cache0, <<>>, ps, up)
               ELSE [songs |-> window, cache |-> cache0, lookups |-> <<>>]
       IN  /\ now' = t
           /\ storeUp' = up
           /\ thumbnail_cache_timestamp' = ts
           /\ thumbnail_existence_cache' = filtered.cache
           /\ epochProbes' = CountProbes(filtered.lookups, probes0)
           /\ prevCache' = thumbnail_existence_cache
           /\ prevTimestamp' = thumbnail_cache_timestamp
           /\ page_size' = ps
           /\ offset' = off
           /\ reqOffset' = off
           /\ random_mode' = rnd
           /\ thumbnails_only' = tonly
           /\ tag' = tg
           /\ expanded_limit' = expanded
           /\ lookups' = filtered.lookups
           /\ requestsLeft' = requestsLeft - 1
           /\ fetches' =
                 IF tagged /\ ~tagFound THEN <<>>
                 ELSE IF tagged
                 THEN <<Fetch("song_tags", off, off + ps * OversampleFactor - 1)>>
                 ELSE <<Fetch("songs", off, off + expanded - 1)>>
           /\ IF early
              THEN /\ total_count' = 0
                   /\ songs' = <<>>
                   /\ response' = EmptyListing(off, ps)
                   /\ pc' = "done"
              ELSE /\ total_count' =
                         IF tagged THEN Cardinality(tagMembers) ELSE nRows
                   /\ songs' = filtered.songs
                   /\ response' = NoResponse
                   /\ pc' = "loop"

\* Lines 176-185: int() raises ValueError on limit or on offset; the
\* response is sent before the cache is looked at.
InvalidParameters(limit, off, dt) ==
    /\ pc = "idle"
    /\ requestsLeft > 0
    /\ ~(IsIntLiteral(limit) /\ IsIntLiteral(off))
    /\ now' = now + dt
    /\ \E ps \in (IF IsIntLiteral(limit) THEN {ClampLimit(ParseInt(limit))}
                  ELSE {page_size}) : page_size' = ps
    /\ rawLimit' = limit
    /\ rawOffset' = off
    /\ prevCache' = thumbnail_existence_cache
    /\ prevTimestamp' = thumbnail_cache_timestamp
    /\ response' = InvalidParametersResponse
    /\ requestsLeft' = requestsLeft - 1
    /\ pc' = "done"
    /\ UNCHANGED <<nRows, tagMembers, storeKeys, storeUp,
                   thumbnail_existence_cache, thumbnail_cache_timestamp,
                   offset, random_mode, thumbnails_only, tag, expanded_limit,
                   total_count, songs, reqOffset, fetches, lookups,
                   epochProbes>>

\* line 347
LoopCondition ==
    /\ thumbnails_only
    /\ Len(songs) < page_size
    /\ (offset + expanded_limit) < total_count

\* line 347 evaluated while expanded_limit is not assigned: UnboundLocalError,
\* caught at line 420.
LoopRaises ==
    /\ pc = "loop"
    /\ thumbnails_only
    /\ Len(songs) < page_size
    /\ expanded_limit = Unbound
    /\ response' = ErrorResponse(offset, page_size)
    /\ pc' = "done"
    /\ UNCHANGED <<nRows, tagMembers, storeKeys, storeUp, now,
                   thumbnail_existence_cache, thumbnail_cache_timestamp,
                   page_size, offset, random_mode, thumbnails_only, tag,
                   expanded_limit, total_count, songs, requestsLeft,
                   reqOffset, rawLimit, rawOffset, fetches, lookups,
                   prevCache, prevTimestamp, epochProbes>>

\* Lines 347-407: one turn of the while loop.
FetchMore(perm) ==
    /\ pc = "loop"
    /\ ~(thumbnails_only /\ Len(songs) < page_size /\ expanded_limit = Unbound)
    /\ LoopCondition
    /\ LET next_offset == NextOffset(offset, expanded_limit)
           next_limit == NextLimit(page_size)
           data == Range(Ordered(1..nRows, random_mode, perm), next_offset,
                         next_offset + next_limit - 1)
           filtered == FilterSongs(data, songs, thumbnail_existence_cache,
                                   lookups, page_size, storeUp)
       IN  /\ fetches' = Append(fetches, Fetch("songs", next_offset,
                                               next_offset + next_limit - 1))
           /\ IF data = <<>>
              THEN /\ response' = Listing(songs, total_count, offset, page_size)
                   /\ pc' = "done"
                   /\ UNCHANGED <<songs, offset, thumbnail_existence_cache,
                                  lookups, epochProbes>>
              ELSE /\ songs' = filtered.songs
                   /\ thumbnail_existence_cache' = filtered.cache
                   /\ lookups' = filtered.lookups
                   /\ epochProbes' =
                         CountProbes(SubSeq(filtered.lookups, Len(lookups) + 1,
                                            Len(filtered.lookups)), epochProbes)
                   /\ offset' = OffsetAfterBatch(next_offset, next_limit)
                   /\ UNCHANGED <<response, pc>>
    /\ UNCHANGED <<nRows, tagMembers, storeKeys, storeUp, now,
                   thumbnail_cache_timestamp, page_size, random_mode,
                   thumbnails_only, tag, expanded_limit, total_count,
                   requestsLeft, reqOffset, rawLimit, rawOffset, prevCache,
                   prevTimestamp>>

\* Lines 409-419: the loop condition is false.
Respond ==
    /\ pc = "loop"
    /\ ~(thumbnails_only /\ Len(songs) < page_size /\ expanded_limit = Unbound)
    /\ ~LoopCondition
    /\ response' = Listing(songs, total_count, offset, page_size)
    /\ pc' = "done"
    /\ UNCHANGED <<nRows, tagMembers, storeKeys, storeUp, now,
                   thumbnail_existence_cache, thumbnail_cache_timestamp,
                   page_size, offset, random_mode, thumbnails_only, tag,
                   expanded_limit, total_count, songs, requestsLeft,
                   reqOffset, rawLimit, rawOffset, fetches, lookups,
                   prevCache, prevTimestamp, epochProbes>>

\* The response is sent; the locals of the call are gone.
Return ==
    /\ pc = "done"
    /\ pc' = "idle"
    /\ page_size' = 0
    /\ offset' = 0
    /\ random_mode' = FALSE
    /\ thumbnails_only' = FALSE
    /\ tag' = NoTag
    /\ expanded_limit' = Unbound
    /\ total_count' = 0
    /\ songs' = <<>>
    /\ response' = NoResponse
    /\ reqOffset' = 0
    /\ rawLimit' = <<>>
    /\ rawOffset' = <<>>
    /\ fetches' = <<>>
    /\ lookups' = <<>>
    /\ prevCache' = EmptyCache
    /\ prevTimestamp' = NoAttr
    /\ storeUp' = TRUE
    /\ UNCHANGED <<nRows, tagMembers, storeKeys, now,
                   thumbnail_existence_cache, thumbnail_cache_timestamp,
                   requestsLeft, epochProbes>>

Next ==
    \/ \E limit \in ParsedLimits, off \in ParsedOffsets, rnd \in BOOLEAN,
          tonly \in BOOLEAN, tg \in Tags,
          dt \in (IF thumbnail_cache_timestamp = NoAttr THEN {0} ELSE Delays) :
          \E up \in (IF tonly THEN BOOLEAN ELSE {TRUE}),
             perm \in (IF rnd THEN Perms ELSE {"fwd"}) :
             /\ GetSongs(limit.value, off.value, rnd, tonly, tg, dt, up, perm)
             /\ rawLimit' = limit.text
             /\ rawOffset' = off.text
             /\ UNCHANGED <<nRows, tagMembers, storeKeys>>
             /\ UNCHANGED outsideListing
    \/ \E p \in RejectedParameters,
          dt \in (IF thumbnail_cache_timestamp = NoAttr THEN {0} ELSE Delays) :
          InvalidParameters(p[1], p[2], dt) /\ UNCHANGED outsideListing
    \/ \E perm \in (IF random_mode THEN Perms ELSE {"fwd"}) :
          FetchMore(perm) /\ UNCHANGED outsideListing
    \/ LoopRaises /\ UNCHANGED outsideListing
    \/ Respond /\ UNCHANGED outsideListing
    \/ Return /\ UNCHANGED outsideListing

Spec == Init /\ [][Next]_vars

----------------------------------------------------------------------------
(* stream_song: state machine *)

\* No listing request is made.
ListingIdle ==
    /\ nRows = 0
    /\ tagMembers = {}
    /\ storeKeys = {}
    /\ storeUp = TRUE
    /\ now = 0
    /\ thumbnail_existence_cache = EmptyCache
    /\ thumbnail_cache_timestamp = NoAttr
    /\ pc = "idle"
    /\ page_size = 0
    /\ offset = 0
    /\ random_mode = FALSE
    /\ thumbnails_only = FALSE
    /\ tag = NoTag
    /\ expanded_limit = Unbound
    /\ total_count = 0
    /\ songs = <<>>
    /\ response = NoResponse
    /\ requestsLeft = 0
    /\ reqOffset = 0
    /\ rawLimit = <<>>
    /\ rawOffset = <<>>
    /\ fetches = <<>>
    /\ lookups = <<>>
    /\ prevCache = EmptyCache
    /\ prevTimestamp = NoAttr
    /\ epochProbes = EmptyCache

StreamInit ==
    /\ ListingIdle
    /\ ThumbIdle
    /\ KeyIdle
    /\ ConcurrentIdle
    /\ \E kind \in RecordKinds : songRecords = [id \in CatalogIds |-> kind]
    /\ audioObject \in {<<>>} \cup {<<size>> : size \in ObjectSizes}
    /\ streamRequestsLeft = MaxStreamRequests
    /\ storeFault = "none"
    /\ streamPc = "idle"
    /\ method = "GET"
    /\ stream_song_id = <<>>
    /\ range_header = <<>>
    /\ b2_response = NoB2Response
    /\ pendingChunks = <<>>
    /\ heldChunks = <<>>
    /\ flask_response = NoClientResponse
    /\ clientBody = <<>>
    /\ catalogQueries = 0
    /\ presignedUrls = 0
    /\ upstreamRequests = <<>>

\* Lines 426-550, up to the return of the response object, and
\* after_request (lines 675-681) applied to it.
StreamSong(m, id, range, fault) ==
    /\ streamPc = "idle"
    /\ streamRequestsLeft > 0
    /\ method' = m
    /\ stream_song_id' = id
    /\ range_header' = range
    /\ storeFault' = fault
    /\ streamRequestsLeft' = streamRequestsLeft - 1
    /\ clientBody' = <<>>
    /\ heldChunks' = <<>>
    /\ LET sid == BeforeColon(id)
           found == sid \in DOMAIN songRecords
           kind == songRecords[sid]
           b2 == GetObject(audioObject, range, fault)
       IN  IF m = "HEAD" /\ sid \in SentinelIds
           THEN /\ flask_response' = AfterRequest(SentinelResponse)
                /\ streamPc' = "done"
                /\ UNCHANGED <<b2_response, pendingChunks, catalogQueries,
                               presignedUrls, upstreamRequests>>
           ELSE IF ~found
           THEN /\ flask_response' = AfterRequest(JsonError(404, "Song not found"))
                /\ catalogQueries' = catalogQueries + 1
                /\ streamPc' = "done"
                /\ UNCHANGED <<b2_response, pendingChunks, presignedUrls,
                               upstreamRequests>>
           ELSE IF kind = "no_column"
           THEN /\ flask_response' = AfterRequest(
                      JsonError(500, "Invalid song data - missing storage path"))
                /\ catalogQueries' = catalogQueries + 1
                /\ streamPc' = "done"
                /\ UNCHANGED <<b2_response, pendingChunks, presignedUrls,
                               upstreamRequests>>
           ELSE IF kind = "null"
           THEN \* None.lower() raises AttributeError, caught at line 548
                /\ flask_response' = AfterRequest(JsonError(500, "Server error"))
                /\ catalogQueries' = catalogQueries + 1
                /\ streamPc' = "done"
                /\ UNCHANGED <<b2_response, pendingChunks, presignedUrls,
                               upstreamRequests>>
           ELSE IF fault = "refused"
           THEN \* requests.get raises, caught at line 544
                /\ flask_response' = AfterRequest(JsonError(500, "Streaming error"))
                /\ catalogQueries' = catalogQueries + 1
                /\ presignedUrls' = presignedUrls + 1
                /\ upstreamRequests' = Append(upstreamRequests, range)
                /\ streamPc' = "done"
                /\ UNCHANGED <<b2_response, pendingChunks>>
           ELSE /\ flask_response' = AfterRequest(Relay(b2, ContentType(kind)))
                /\ catalogQueries' = catalogQueries + 1
                /\ presignedUrls' = presignedUrls + 1
                /\ upstreamRequests' = Append(upstreamRequests, range)
                /\ b2_response' = b2
                \* a HEAD response is sent without its body
                /\ pendingChunks' = IF m = "HEAD" THEN <<>> ELSE b2.chunks
                /\ streamPc' = "streaming"
    /\ UNCHANGED <<songRecords, audioObject>>

\* Line 502: the for loop of generate() asks iter_content for the next chunk;
\* the generator is at the loop head, holding no chunk.
IterContent ==
    /\ streamPc = "streaming"
    /\ pendingChunks # <<>>
    /\ MayPull(heldChunks)
    /\ heldChunks' = Append(heldChunks, Head(pendingChunks))
    /\ pendingChunks' = Tail(pendingChunks)
    /\ UNCHANGED <<songRecords, audioObject, storeFault, streamPc, method,
                   stream_song_id, range_header, b2_response, flask_response,
                   clientBody, catalogQueries, presignedUrls,
                   upstreamRequests, streamRequestsLeft>>

\* Lines 503-504: generate() yields the chunk it holds to the server, which
\* writes it to the client.
Generate ==
    /\ streamPc = "streaming"
    /\ heldChunks # <<>>
    /\ clientBody' = Yield(clientBody, Head(heldChunks))
    /\ heldChunks' = Tail(heldChunks)
    /\ UNCHANGED <<songRecords, audioObject, storeFault, streamPc, method,
                   stream_song_id, range_header, b2_response, pendingChunks,
                   flask_response, catalogQueries, presignedUrls,
                   upstreamRequests, streamRequestsLeft>>

\* iter_content is exhausted: the body is complete.
StreamEnd ==
    /\ streamPc = "streaming"
    /\ pendingChunks = <<>>
    /\ heldChunks = <<>>
    /\ streamPc' = "done"
    /\ UNCHANGED <<songRecords, audioObject, storeFault, method,
                   stream_song_id, range_header, b2_response, pendingChunks,
                   heldChunks, flask_response, clientBody, catalogQueries, presignedUrls,
                   upstreamRequests, streamRequestsLeft>>

\* The request is over.
StreamReturn ==
    /\ streamPc = "done"
    /\ streamPc' = "idle"
    /\ storeFault' = "none"
    /\ method' = "GET"
    /\ stream_song_id' = <<>>
    /\ range_header' = <<>>
    /\ b2_response' = NoB2Response
    /\ pendingChunks' = <<>>
    /\ heldChunks' = <<>>
    /\ flask_response' = NoClientResponse
    /\ clientBody' = <<>>
    /\ catalogQueries' = 0
    /\ presignedUrls' = 0
    /\ upstreamRequests' = <<>>
    /\ UNCHANGED <<songRecords, audioObject, streamRequestsLeft>>

StreamNext ==
    \/ \E m \in Methods, id \in StreamIds, range \in RangeHeaders,
          fault \in StoreFaults :
          StreamSong(m, id, range, fault) /\ UNCHANGED outsideStream
    \/ IterContent /\ UNCHANGED outsideStream
    \/ Generate /\ UNCHANGED outsideStream
    \/ StreamEnd /\ UNCHANGED outsideStream
    \/ StreamReturn /\ UNCHANGED outsideStream

StreamSpec == StreamInit /\ [][StreamNext]_vars

\* bytes the client has received
RECURSIVE BodyLen(_)
BodyLen(body) == IF body = <<>> THEN 0 ELSE PieceLen(Head(body)) + BodyLen(Tail(body))

\* the body is exactly bytes from..to of the stored object, in order
IsObjectBytes(body, from, to) ==
    /\ BodyLen(body) = to - from + 1
    /\ \A i \in 1..Len(body) :
          /\ body[i].kind = "object"
          /\ body[i].from = from + BodyLen(SubSeq(body, 1, i - 1))

\* the request went as far as requests.get
UpstreamAsked == streamPc \in {"streaming", "done"} /\ upstreamRequests # <<>>

\* C11 (as claimed): when the store answers with a status other than 2xx or
\* 206, or the connection to it fails, the client gets a 5xx status and an
\* error body.
C11_UpstreamFailureIs5xx ==
    (UpstreamAsked
       /\ (storeFault = "refused" \/ b2_response.status \notin 200..299))
        => /\ flask_response.status >= 500
           /\ flask_response.error # ""

\* the item is in the catalog with a storage path, its object is in the
\* store, and the store answers
ExistingItem ==
    /\ BeforeColon(stream_song_id) \in DOMAIN songRecords
    /\ songRecords[BeforeColon(stream_song_id)] \notin {"no_column", "null"}
    /\ audioObject # <<>>
    /\ storeFault = "none"

\* C12: for an existing item and Range: bytes=A-B within the object, the
\* Range header goes upstream as the client sent it, and the client gets
\* 206 with Content-Range bytes A-B/total, the upstream's Content-Length
\* and Accept-Ranges, and a body of exactly B-A+1 bytes (bytes A..B).
C12_RangeRelayedAs206 ==
    (streamPc = "done" /\ method = "GET" /\ ExistingItem
       /\ range_header # <<>>
       /\ range_header[1] <= range_header[2]
       /\ range_header[2] < audioObject[1])
        => /\ upstreamRequests = <<range_header>>
           /\ flask_response.status = 206
           /\ flask_response.content_range =
                 <<range_header[1], range_header[2], audioObject[1]>>
           /\ flask_response.content_length = b2_response.content_length
           /\ flask_response.accept_ranges = b2_response.accept_ranges
           /\ BodyLen(clientBody) = range_header[2] - range_header[1] + 1
           /\ IsObjectBytes(clientBody, range_header[1], range_header[2])

C12_Witness ==
    /\ streamPc = "done"
    /\ method = "GET"
    /\ ExistingItem
    /\ range_header = <<8192, 16384>>
    /\ audioObject = <<16385>>
    /\ flask_response.status = 206
    /\ flask_response.content_range = <<8192, 16384, 16385>>
    /\ flask_response.content_length = <<8193>>
    /\ Len(clientBody) = 2
    /\ BodyLen(clientBody) = 8193

\* C13: for an existing item asked for without a Range header the client
\* gets 200, Content-Length equal to the object's size, and a body that is
\* the upstream chunks in order: the bytes of the stored object.
C13_WholeObjectRelayedAs200 ==
    (streamPc = "done" /\ method = "GET" /\ ExistingItem
       /\ range_header = <<>>)
        => /\ flask_response.status = 200
           /\ flask_response.content_length = <<audioObject[1]>>
           /\ clientBody = b2_response.chunks
           /\ IsObjectBytes(clientBody, 0, audioObject[1] - 1)

C13_Witness ==
    /\ streamPc = "done"
    /\ method = "GET"
    /\ ExistingItem
    /\ range_header = <<>>
    /\ audioObject = <<16385>>
    /\ flask_response.status = 200
    /\ Len(clientBody) = 3
    /\ BodyLen(clientBody) = 16385

\* C14: HEAD for the ids 'test' and '1' is answered 200 with
\* Content-Length 0 and Accept-Ranges: bytes; the catalog is not asked, no
\* URL is signed and no request goes upstream.
C14_HeadSentinelIsSynthetic ==
    (streamPc = "done" /\ method = "HEAD"
       /\ BeforeColon(stream_song_id) \in {<<"t", "e", "s", "t">>, <<"1">>})
        => /\ flask_response.status = 200
           /\ flask_response.content_length = <<0>>
           /\ flask_response.accept_ranges = <<"bytes">>
           /\ clientBody = <<>>
           /\ catalogQueries = 0
           /\ presignedUrls = 0
           /\ upstreamRequests = <<>>

C14_Witness ==
    /\ streamPc = "done"
    /\ method = "HEAD"
    /\ stream_song_id = <<"1">>
    /\ ExistingItem
    /\ flask_response.status = 200
    /\ flask_response.content_length = <<0>>
    /\ catalogQueries = 0

\* the request is not the HEAD probe of a sentinel id
PlaybackRequest ==
    ~(method = "HEAD" /\ BeforeColon(stream_song_id) \in SentinelIds)

\* C20: an id without a catalog record is answered 404, a record without a
\* storage path 500 with an error; in both cases no URL is signed and no
\* request goes upstream.
C20_NoRecordOrNoPath ==
    (streamPc = "done" /\ PlaybackRequest)
        => /\ BeforeColon(stream_song_id) \notin DOMAIN songRecords
                => /\ flask_response.status = 404
                   /\ presignedUrls = 0
                   /\ upstreamRequests = <<>>
           /\ (/\ BeforeColon(stream_song_id) \in DOMAIN songRecords
               /\ songRecords[BeforeColon(stream_song_id)]
                     \in {"no_column", "null"})
                => /\ flask_response.status = 500
                   /\ flask_response.error # ""
                   /\ presignedUrls = 0
                   /\ upstreamRequests = <<>>

C20_Witness ==
    /\ streamPc = "done"
    /\ method = "GET"
    /\ stream_song_id = <<"7", ":", "1">>
    /\ songRecords[<<"7">>] = "no_column"
    /\ flask_response.status = 500
    /\ flask_response.error = "Invalid song data - missing storage path"
    /\ catalogQueries = 1
    /\ presignedUrls = 0

\* C25: while a GET is streamed the proxy holds at most one chunk, of at
\* most 8192 bytes; the next chunk is pulled from upstream only when the one
\* before has been handed to the client; the chunks handed over, the one
\* held and those not yet pulled are together the upstream chunks, in
\* upstream order, none lost and none twice.
C25_OneChunkInFlight ==
    (streamPc \in {"streaming", "done"} /\ method = "GET"
       /\ UpstreamAsked /\ storeFault # "refused")
        => /\ Len(heldChunks) <= 1
           /\ \A i \in 1..Len(heldChunks) :
                 PieceLen(heldChunks[i]) \in 1..8192
           /\ \A i \in 1..Len(clientBody) :
                 PieceLen(clientBody[i]) \in 1..8192
           /\ clientBody \o heldChunks \o pendingChunks = b2_response.chunks
           /\ streamPc = "done" => clientBody = b2_response.chunks

C25_Witness ==
    /\ streamPc = "streaming"
    /\ method = "GET"
    /\ audioObject = <<16385>>
    /\ range_header = <<>>
    /\ Len(clientBody) = 1
    /\ Len(heldChunks) = 1
    /\ heldChunks[1] = Piece("object", 8192, 16383)
    /\ Len(pendingChunks) = 1

\* the response carries an Access-Control-Allow-Origin: * header
PermissiveCors(resp) ==
    /\ resp.allow_origin # <<>>
    /\ \A i \in 1..Len(resp.allow_origin) : resp.allow_origin[i] = "*"

CachedForADay(resp) ==
    resp.cache_control = <<"public, max-age=86400">>

\* the response is the relay of what the store answered
Relayed == UpstreamAsked /\ storeFault # "refused"

\* C21 (as claimed): every response to a playback request carries
\* permissive CORS headers and Cache-Control: public, max-age=86400.
C21_EveryResponseCorsAndCached ==
    (streamPc \in {"streaming", "done"} /\ PlaybackRequest)
        => /\ PermissiveCors(flask_response)
           /\ CachedForADay(flask_response)

\* C21 (amended): every response to a playback request carries permissive
\* CORS headers; a response that relays the store's answer, whatever the
\* store's status, carries Cache-Control: public, max-age=86400 as well,
\* and an error response the endpoint makes itself carries no Cache-Control.
C21_CorsAlwaysCachedWhenRelayed ==
    (streamPc \in {"streaming", "done"} /\ PlaybackRequest)
        => /\ PermissiveCors(flask_response)
           /\ CachedForADay(flask_response) <=> Relayed
           /\ ~Relayed => /\ flask_response.cache_control = <<>>
                           /\ flask_response.status \in {404, 500}

C21_Witness ==
    /\ streamPc = "done"
    /\ method = "GET"
    /\ storeFault = "forbidden"
    /\ b2_response.status = 403
    /\ flask_response.status = 200
    /\ PermissiveCors(flask_response)
    /\ CachedForADay(flask_response)


----------------------------------------------------------------------------
(* Vocabulary of the properties *)

\* rows whose thumbnail is in the bucket
Passing == {r \in 1..nRows : BucketKey(r) \in storeKeys}

K == Cardinality(Passing)

\* the passing rows from position off on, most recent first
PassingFrom(off) == RowsFrom(off + 1, Passing)

CeilDiv(a, b) == (a + b - 1) \div b

\* the first window and the further windows of 3 x limit rows up to total
WindowsNeeded(off, ps, total) ==
    1 + CeilDiv(Max(0, total - off - OversampleFactor * ps),
                OversampleFactor * ps)

\* An untagged, recency-ordered, existence-filtered request on a reachable
\* store and an empty cache has been answered.
PlainFilteredListingDone ==
    /\ pc = "done"
    /\ tag = NoTag
    /\ thumbnails_only
    /\ ~random_mode
    /\ storeUp
    /\ prevCache = EmptyCache

\* the request arrived more than an hour after the cache epoch
ArrivedAfterExpiry ==
    /\ pc # "idle"
    /\ prevTimestamp # NoAttr
    /\ now - prevTimestamp > 3600

LookupIds == {lookups[i].id : i \in 1..Len(lookups)}

EarlierLookups(i) == {j \in 1..(i - 1) : lookups[j].id = lookups[i].id}

Misses(id) == {i \in 1..Len(lookups) : lookups[i].id = id /\ ~lookups[i].hit}

----------------------------------------------------------------------------
(* Properties *)

\* C1 (as claimed): with K < N passing rows, offset 0, thumbnails_only and no
\* tag, the page holds exactly min(limit, K) songs.
C1_PageHoldsMinLimitK ==
    (PlainFilteredListingDone /\ reqOffset = 0 /\ K < nRows)
        => /\ response.status = 200
           /\ Len(response.songs) = Min(page_size, K)

\* C2 (as claimed): under the same conditions has_more is true exactly when
\* K > limit.
C2_HasMoreIffKExceedsLimit ==
    (PlainFilteredListingDone /\ reqOffset = 0 /\ K < nRows)
        => (response.has_more <=> K > page_size)

\* C3 (as claimed): the windows fetched by an existence-filtered listing are
\* contiguous from the request offset: each starts where the previous ended.
C3_WindowsContiguous ==
    (thumbnails_only /\ fetches # <<>>)
        => /\ fetches[1].from = reqOffset
           /\ \A i \in 2..Len(fetches) :
                 fetches[i].from = fetches[i - 1].to + 1

C5_PageIsFirstPassingRows ==
    PlainFilteredListingDone
        => LET want == PassingFrom(reqOffset)
           IN  response.songs = SubSeq(want, 1, Min(page_size, Len(want)))

\* C6 (as claimed): the total field is the catalog's row count, or the tag's
\* membership count when a tag is given.
C6_TotalIsCatalogCount ==
    (pc = "done" /\ response.status = 200)
        => response.total =
               (IF tag = NoTag THEN nRows
                ELSE IF tag \in TagsTable THEN Cardinality(tagMembers) ELSE 0)

\* C6 (amended): the total field of a listing response is the number of
\* songs the request collected, which with thumbnails_only is the number of
\* songs on the page.
C6_TotalIsCollectedCount ==
    (pc = "done" /\ response.status = 200)
        => /\ response.total = Len(songs)
           /\ thumbnails_only => response.total = Len(response.songs)
           /\ ~thumbnails_only => response.total >= Len(response.songs)

C6_Witness ==
    /\ pc = "done"
    /\ response.status = 200
    /\ tag = NoTag
    /\ thumbnails_only
    /\ response.songs # <<>>
    /\ response.total = Len(response.songs)
    /\ response.total < nRows

\* C7 (as claimed): a tagged, existence-filtered listing is answered with a
\* page drawn from the tag-membership join in every fetch it makes, so each
\* song on the page carries the tag.
C7_TaggedPageFromTagJoin ==
    (pc = "done" /\ tag \in TagsTable /\ thumbnails_only)
        => /\ response.status = 200
           /\ \A i \in 1..Len(fetches) : fetches[i].table = "song_tags"
           /\ \A i \in 1..Len(response.songs) :
                 response.songs[i] \in tagMembers

\* C8: within one cache epoch an item is probed at most once, and a lookup
\* of an item whose verdict is already known (from this request or from an
\* earlier request of the epoch) is answered from the cache with that verdict.
C8_VerdictStableWithinEpoch ==
    /\ \A id \in DOMAIN epochProbes : epochProbes[id] <= 1
    /\ \A i \in 1..Len(lookups) :
          LET e == lookups[i]
          IN  /\ EarlierLookups(i) # {}
                  => /\ e.hit
                     /\ \A j \in EarlierLookups(i) :
                           lookups[j].verdict = e.verdict
              /\ (EarlierLookups(i) = {} /\ ~ArrivedAfterExpiry
                     /\ e.id \in DOMAIN prevCache)
                  => /\ e.hit
                     /\ e.verdict = prevCache[e.id]

\* a cached negative verdict is reused although a probe would now succeed
C8_Witness ==
    \E i \in 1..Len(lookups) :
        /\ lookups[i].hit
        /\ ~lookups[i].verdict
        /\ lookups[i].id \in DOMAIN prevCache
        /\ HeadObject(ThumbnailPath(lookups[i].id), storeUp)
        /\ epochProbes[lookups[i].id] = 1

\* C9: a request arriving more than 3600 s after the cache epoch (and not
\* rejected for its parameters, see C19) resets the epoch and empties the map
\* before its lookups: the map then holds only what this request probed,
\* every verdict it uses is a fresh one, and each item it touches is probed
\* exactly once.
C9_ExpiredEpochIsReset ==
    (ArrivedAfterExpiry /\ response.status # 400)
        => /\ thumbnail_cache_timestamp = now
           /\ DOMAIN thumbnail_existence_cache = LookupIds
           /\ \A id \in LookupIds :
                 /\ Cardinality(Misses(id)) = 1
                 /\ epochProbes[id] = 1
           /\ \A i \in 1..Len(lookups) :
                 /\ lookups[i].verdict =
                        HeadObject(ThumbnailPath(lookups[i].id), storeUp)
                 /\ EarlierLookups(i) = {} => ~lookups[i].hit

\* an item cached as absent in the expired epoch is probed again and found
C9_Witness ==
    /\ ArrivedAfterExpiry
    /\ pc = "done"
    /\ \E i \in 1..Len(lookups) :
          /\ lookups[i].id \in DOMAIN prevCache
          /\ ~prevCache[lookups[i].id]
          /\ lookups[i].verdict
          /\ ~lookups[i].hit

\* C10 (as claimed): a request in which an existence probe failed is still
\* answered with a 200 listing, and the item of the failed probe is not on
\* the page.
C10_FailedProbeStillListing ==
    (pc = "done" /\ \E i \in 1..Len(lookups) :
                       ~lookups[i].hit /\ ~lookups[i].verdict)
        => /\ response.status = 200
           /\ \A i \in 1..Len(lookups) :
                 (~lookups[i].hit /\ ~lookups[i].verdict)
                     => \A j \in 1..Len(response.songs) :
                           response.songs[j] # lookups[i].row

----------------------------------------------------------------------------
(* api_get_thumbnail: state machine.  One thumbnail request is served at a
   time. *)

\* The directory after n requests, one second apart, for the ids 1..n, each
\* downloaded with success.
FilledDir(n) == [f \in {Digits(k) : k \in 1..n} |-> CacheFile(NumberOf(f), "v1")]

ThumbInit ==
    /\ ListingIdle
    /\ StreamIdle
    /\ KeyIdle
    /\ ConcurrentIdle
    /\ \E n \in {0, Capacity - 1} :
          /\ cacheDir = FilledDir(n)
          /\ thumbTime = n
          /\ inserted = n
          /\ fillLeft = IF n = 0 THEN 0 ELSE FillTarget - n
          /\ thumbRequestsLeft = IF n = 0 THEN MaxThumbRequests ELSE 1
    /\ thumbPc = "idle"
    /\ thumb_song_id = <<>>
    /\ dirAtLookup = EmptyDir
    /\ dirAtSweep = EmptyDir
    /\ removedBySweep = {}
    /\ thumbResponse = NoThumbnailResponse
    /\ fetchOutcome = ""
    /\ downloadKey = <<>>
    /\ filling = FALSE

\* Lines 553-588: the request arrives dt seconds after the one before; the
\* directory is listed and, if it holds too many files, trimmed.
ThumbSweep(id, dt) ==
    /\ thumbPc = "idle"
    /\ thumbTime' = thumbTime + dt
    /\ thumb_song_id' = id
    /\ \E removed \in {FilesToRemove(cacheDir)} :
          /\ removedBySweep' = removed
          /\ cacheDir' = IF removed = {} THEN cacheDir
                         ELSE RemoveFiles(cacheDir, removed)
    /\ dirAtLookup' = cacheDir'
    /\ dirAtSweep' = cacheDir
    /\ filling' = (fillLeft > 0)
    /\ fillLeft' = IF fillLeft > 0 THEN fillLeft - 1 ELSE fillLeft
    /\ thumbRequestsLeft' = IF fillLeft > 0 THEN thumbRequestsLeft
                            ELSE thumbRequestsLeft - 1
    /\ thumbPc' = "lookup"
    /\ UNCHANGED <<thumbResponse, fetchOutcome, downloadKey, inserted>>

\* Lines 590-665: the cached file if fresh, else the download, else the
\* placeholder.
ThumbServe(outcome) ==
    /\ thumbPc = "lookup"
    /\ LET name == thumb_song_id
           exists == name \in DOMAIN cacheDir
       IN  IF exists /\ IsFresh(thumbTime - cacheDir[name].mtime)
           THEN /\ thumbResponse' =
                      ThumbnailResponse("cache", cacheDir[name].content)
                /\ UNCHANGED <<cacheDir, inserted, fetchOutcome, downloadKey>>
           ELSE /\ downloadKey' = ThumbnailFetchPath(name)
                /\ fetchOutcome' = outcome
                /\ IF outcome \in {"v1", "v2"}
                   THEN /\ cacheDir' = PutFile(cacheDir, name, thumbTime, outcome)
                        /\ inserted' = IF exists THEN inserted ELSE inserted + 1
                        /\ thumbResponse' = ThumbnailResponse("fetched", outcome)
                   ELSE /\ thumbResponse' =
                              ThumbnailResponse("placeholder", "placeholder")
                        /\ UNCHANGED <<cacheDir, inserted>>
    /\ thumbPc' = "done"
    /\ UNCHANGED <<thumbTime, thumb_song_id, dirAtLookup, dirAtSweep,
                   removedBySweep,
                   fillLeft, filling, thumbRequestsLeft>>

\* The request is over.
ThumbReturn ==
    /\ thumbPc = "done"
    /\ thumbPc' = "idle"
    /\ thumb_song_id' = <<>>
    /\ dirAtLookup' = EmptyDir
    /\ dirAtSweep' = EmptyDir
    /\ removedBySweep' = {}
    /\ thumbResponse' = NoThumbnailResponse
    /\ fetchOutcome' = ""
    /\ downloadKey' = <<>>
    /\ filling' = FALSE
    /\ UNCHANGED <<cacheDir, thumbTime, inserted, fillLeft, thumbRequestsLeft>>

ThumbNext ==
    \/ /\ fillLeft > 0
       /\ ThumbSweep(Digits(FillTarget - fillLeft + 1), 1)
       /\ UNCHANGED outsideThumbnail
    \/ /\ fillLeft = 0
       /\ thumbRequestsLeft > 0
       /\ \E id \in ThumbIds, dt \in Waits : ThumbSweep(id, dt)
       /\ UNCHANGED outsideThumbnail
    \/ \E outcome \in (IF filling THEN {"v1"} ELSE FetchOutcomes) :
          ThumbServe(outcome) /\ UNCHANGED outsideThumbnail
    \/ ThumbReturn /\ UNCHANGED outsideThumbnail

ThumbSpec == ThumbInit /\ [][ThumbNext]_vars

\* C15 (as claimed): once 1001 distinct entries have been inserted by
\* successive thumbnail requests, the directory holds exactly capacity
\* minus trim batch files.
C15_TrimmedAfterCapacityPlusOne ==
    (thumbPc = "done" /\ inserted = 1001)
        => Cardinality(DOMAIN cacheDir) = 1000 - 200

\* the file asked for is in the directory at the lookup, older than 24 hours
StaleAtLookup ==
    /\ thumb_song_id \in DOMAIN dirAtLookup
    /\ thumbTime - dirAtLookup[thumb_song_id].mtime > 86400

\* C16: a lookup that finds the cache file older than 24 hours is a miss and
\* does not remove the file; a download that succeeds replaces it, and after
\* a download that fails the file is there as it was.  No other file of the
\* directory changes.
C16_StaleFileKeptUntilReplaced ==
    (thumbPc = "done" /\ StaleAtLookup)
        => /\ thumbResponse.source # "cache"
           /\ DOMAIN cacheDir = DOMAIN dirAtLookup
           /\ \A f \in DOMAIN cacheDir :
                 f # thumb_song_id => cacheDir[f] = dirAtLookup[f]
           /\ IF fetchOutcome \in {"v1", "v2"}
              THEN /\ cacheDir[thumb_song_id] =
                         [mtime |-> thumbTime, content |-> fetchOutcome]
                   /\ thumbResponse = ThumbnailResponse("fetched", fetchOutcome)
              ELSE /\ cacheDir[thumb_song_id] = dirAtLookup[thumb_song_id]
                   /\ thumbResponse.source = "placeholder"

C16_Witness ==
    /\ thumbPc = "done"
    /\ StaleAtLookup
    /\ fetchOutcome = "timeout"
    /\ thumbResponse.source = "placeholder"
    /\ thumb_song_id \in DOMAIN cacheDir
    /\ cacheDir[thumb_song_id].content = "v2"
    /\ thumbTime - cacheDir[thumb_song_id].mtime = 86401

\* the sweep of this request removed files
SweepRan == removedBySweep # {}

\* C28: with thumbnail requests served one after the other and every
\* os.remove succeeding, the directory never holds more than 1001 files, and
\* a sweep that runs removes exactly 200 files, the 200 of least mtime.
C28_AtMostCapacityPlusOneAndOldestRemoved ==
    /\ Cardinality(DOMAIN cacheDir) <= 1001
    /\ (thumbPc \in {"lookup", "done"} /\ SweepRan)
          => /\ Cardinality(DOMAIN dirAtSweep) > 1000
             /\ Cardinality(removedBySweep) = 200
             /\ removedBySweep \subseteq DOMAIN dirAtSweep
             /\ DOMAIN dirAtLookup = (DOMAIN dirAtSweep) \ removedBySweep
             /\ \A f \in removedBySweep :
                   \A g \in DOMAIN dirAtLookup :
                      dirAtSweep[f].mtime < dirAtSweep[g].mtime
    /\ (thumbPc \in {"lookup", "done"} /\ ~SweepRan)
          => Cardinality(DOMAIN dirAtSweep) <= 1000

C28_Witness ==
    /\ thumbPc = "done"
    /\ SweepRan
    /\ Cardinality(DOMAIN dirAtSweep) = 1001
    /\ removedBySweep = {Digits(k) : k \in 1..200}
    /\ thumbResponse.source = "fetched"
    /\ Cardinality(DOMAIN cacheDir) = 802

----------------------------------------------------------------------------
(* Thumbnail key derivation: state machine *)

KeyInit ==
    /\ ListingIdle
    /\ StreamIdle
    /\ ThumbIdle
    /\ ConcurrentIdle
    /\ keyPc = "idle"
    /\ keyId \in DecimalIds
    /\ \E z \in 0..MaxPadZeros :
          /\ keySibling = Zeros(z) \o LStripZeros(keyId)
          /\ keySibling # <<>>
    /\ probeKey = <<>>
    /\ fetchKey = <<>>
    /\ siblingKey = <<>>
    /\ rederivedKey = <<>>
    /\ scriptKey = <<>>

\* get_songs, lines 316-322, for keyId
DeriveProbeKey ==
    /\ keyPc = "idle"
    /\ probeKey' = ThumbnailPath(keyId)
    /\ keyPc' = "probed"
    /\ UNCHANGED <<keyId, keySibling, fetchKey, siblingKey, rederivedKey,
                   scriptKey>>

\* api_get_thumbnail, lines 605-614, for keyId, for its sibling, and for the
\* key derived
DeriveFetchKeys ==
    /\ keyPc = "probed"
    /\ fetchKey' = ThumbnailFetchPath(keyId)
    /\ siblingKey' = ThumbnailFetchPath(keySibling)
    /\ rederivedKey' = ThumbnailFetchPath(ThumbnailFetchPath(keyId))
    /\ keyPc' = "fetched"
    /\ UNCHANGED <<keyId, keySibling, probeKey, scriptKey>>

\* test_thumbnail_paths.py, format_thumbnail_path(keyId)
FormatPath ==
    /\ keyPc = "fetched"
    /\ scriptKey' = FormatThumbnailPath(keyId)
    /\ keyPc' = "formatted"
    /\ UNCHANGED <<keyId, keySibling, probeKey, fetchKey, siblingKey,
                   rederivedKey>>

KeyNext ==
    \/ DeriveProbeKey /\ UNCHANGED outsideKeys
    \/ DeriveFetchKeys /\ UNCHANGED outsideKeys
    \/ FormatPath /\ UNCHANGED outsideKeys

KeySpec == KeyInit /\ [][KeyNext]_vars

\* the decimal writing of the id's number, padded with zeros on the left to
\* 6 digits
PaddedDecimal(id) == ZFill(Digits(NumberOf(id)), 6)

\* C17: for a decimal id the existence probe and the thumbnail download use
\* the same key thumbnails/<D>.png, D being the id without its leading zeros,
\* padded with zeros to 6 digits; ids that differ only in leading zeros get
\* the same key; deriving from D again gives D.
C17_KeyDerivation ==
    keyPc = "fetched"
        => /\ probeKey = fetchKey
           /\ fetchKey = PaddedDecimal(keyId)
           /\ Len(fetchKey) >= 6
           /\ siblingKey = fetchKey
           /\ rederivedKey = fetchKey

C17_Witness ==
    /\ keyPc = "fetched"
    /\ keyId = <<0, 0, 0, 0, 0, 1, 9>>
    /\ keySibling = <<1, 9>>
    /\ probeKey = <<0, 0, 0, 0, 1, 9>>
    /\ fetchKey = <<0, 0, 0, 0, 1, 9>>
    /\ siblingKey = <<0, 0, 0, 0, 1, 9>>
    /\ rederivedKey = <<0, 0, 0, 0, 1, 9>>

----------------------------------------------------------------------------
(* Parameters of the listing request *)

IntegerParameters == IsIntLiteral(rawLimit) /\ IsIntLiteral(rawOffset)

\* C18: for every integer limit the page size in effect is min(limit, 30);
\* no listing response carries more than 30 songs, and its limit field is
\* never above 30.
C18_PageSizeIsClampedLimit ==
    (pc \in {"loop", "done"} /\ IntegerParameters)
        => /\ page_size = Min(ParseInt(rawLimit), 30)
           /\ Len(response.songs) <= 30
           /\ response.limit <= 30

C18_Witness ==
    /\ pc = "done"
    /\ rawLimit = <<"3", "1">>
    /\ nRows > 30
    /\ response.status = 200
    /\ response.limit = 30
    /\ Len(response.songs) = 30
    /\ Len(songs) = 30

\* C19: a listing request whose limit or offset is not an integer is answered
\* with 400; it asks nothing of the catalog, probes nothing, and leaves the
\* existence cache and its epoch timestamp as they were.
C19_InvalidParametersRejected ==
    (pc = "done" /\ ~IntegerParameters)
        => /\ response.status = 400
           /\ fetches = <<>>
           /\ lookups = <<>>
           /\ thumbnail_existence_cache = prevCache
           /\ thumbnail_cache_timestamp = prevTimestamp

C19_Witness ==
    /\ pc = "done"
    /\ rawLimit = <<"x">>
    /\ response.status = 400
    /\ ArrivedAfterExpiry
    /\ thumbnail_existence_cache # EmptyCache
    /\ thumbnail_existence_cache = prevCache


----------------------------------------------------------------------------
(* Fetch windows of the filtered listing *)

\* rows a catalog fetch asks for
WindowSpan(fetch) == fetch.to - fetch.from + 1

\* C22 (as claimed): every fetch window of an existence-filtered listing,
\* the first and each later one, spans 3 * limit catalog rows.
C22_EveryWindowSpansThreeLimits ==
    (thumbnails_only /\ fetches # <<>>)
        => \A i \in 1..Len(fetches) : WindowSpan(fetches[i]) = 3 * page_size

\* C27 (as claimed): a listing request whose limit and offset are integers
\* is answered 200 for every combination of tag, random order and
\* thumbnails_only, when the catalog and the store answer.
C27_IntegerParametersAnswered200 ==
    (pc = "done" /\ IntegerParameters /\ storeUp)
        => response.status = 200

----------------------------------------------------------------------------
(* The key of the test script *)

\* C26 (as claimed): format_thumbnail_path yields for every song id the key
\* that api_get_thumbnail derives for it.
C26_ScriptKeyIsAppKey ==
    keyPc = "formatted" => scriptKey = fetchKey

----------------------------------------------------------------------------
(* Concurrent get_songs calls: state machine.  The threads run lines 187-199
   and the cache lookup of lines 308-333 without a lock; a step is one read
   or one write of an attribute of app, or one call to the store. *)

WorkerInit ==
    /\ StreamIdle
    /\ ThumbIdle
    /\ KeyIdle
    /\ ThumbThreadIdle
    /\ LikeIdle
    /\ nRows = 2
    /\ tagMembers = {}
    /\ storeKeys \in {{}, {BucketKey(1)}}
    /\ storeUp = TRUE
    /\ now = 0
    /\ thumbnail_existence_cache = EmptyCache
    /\ thumbnail_cache_timestamp = 0
    /\ pc = "idle"
    /\ page_size = 0
    /\ offset = 0
    /\ random_mode = FALSE
    /\ thumbnails_only = FALSE
    /\ tag = NoTag
    /\ expanded_limit = Unbound
    /\ total_count = 0
    /\ songs = <<>>
    /\ response = NoResponse
    /\ requestsLeft = 0
    /\ reqOffset = 0
    /\ rawLimit = <<>>
    /\ rawOffset = <<>>
    /\ fetches = <<>>
    /\ lookups = <<>>
    /\ prevCache = EmptyCache
    /\ prevTimestamp = NoAttr
    /\ epochProbes = EmptyCache
    /\ workerPc = [w \in Workers |-> "idle"]
    /\ workerSong = [w \in Workers |-> 0]
    /\ workerProbeEpoch = [w \in Workers |-> 0]
    /\ entryEpoch = EmptyCache
    /\ resets = 0
    /\ expiries = 0
    /\ ticksLeft = MaxTicks

\* time.time() moves on by dt seconds
Tick(dt) ==
    /\ ticksLeft > 0
    /\ ticksLeft' = ticksLeft - 1
    /\ now' = now + dt
    /\ expiries' =
          IF ~CacheExpired(thumbnail_cache_timestamp, now)
             /\ CacheExpired(thumbnail_cache_timestamp, now + dt)
          THEN expiries + 1 ELSE expiries
    /\ UNCHANGED <<thumbnail_existence_cache, thumbnail_cache_timestamp,
                   workerPc, workerSong, workerProbeEpoch, entryEpoch, resets>>

\* lines 192-194: the thread reads the timestamp and the clock and compares
CheckAge(w) ==
    /\ workerPc[w] = "idle"
    /\ workerPc' = [workerPc EXCEPT ![w] =
          IF CacheExpired(thumbnail_cache_timestamp, now)
          THEN "clear" ELSE "lookup"]
    /\ UNCHANGED <<sharedCache, workerSong, workerProbeEpoch, entryEpoch,
                   resets, expiries, ticksLeft>>

\* line 196
ClearCache(w) ==
    /\ workerPc[w] = "clear"
    /\ thumbnail_existence_cache' = EmptyCache
    /\ entryEpoch' = EmptyCache
    /\ resets' = resets + 1
    /\ workerPc' = [workerPc EXCEPT ![w] = "stamp"]
    /\ UNCHANGED <<now, thumbnail_cache_timestamp, workerSong,
                   workerProbeEpoch, expiries, ticksLeft>>

\* line 197
StampCache(w) ==
    /\ workerPc[w] = "stamp"
    /\ thumbnail_cache_timestamp' = now
    /\ workerPc' = [workerPc EXCEPT ![w] = "lookup"]
    /\ UNCHANGED <<now, thumbnail_existence_cache, workerSong,
                   workerProbeEpoch, entryEpoch, resets, expiries, ticksLeft>>

\* lines 309-312: the cache is asked for the song; when it has no verdict the
\* thread calls head_object (line 327)
LookUp(w, song) ==
    /\ workerPc[w] = "lookup"
    /\ workerSong' = [workerSong EXCEPT ![w] = song]
    /\ IF CacheHit(thumbnail_existence_cache, SongId(song))
       THEN /\ workerPc' = [workerPc EXCEPT ![w] = "done"]
            /\ UNCHANGED workerProbeEpoch
       ELSE /\ workerPc' = [workerPc EXCEPT ![w] = "probing"]
            /\ workerProbeEpoch' = [workerProbeEpoch EXCEPT ![w] = resets]
    /\ UNCHANGED <<sharedCache, entryEpoch, resets, expiries, ticksLeft>>

\* lines 328-333: head_object has answered; the verdict is stored in the map
\* that app.thumbnail_existence_cache names now
StoreVerdict(w) ==
    /\ workerPc[w] = "probing"
    /\ LET song_id == SongId(workerSong[w])
           has_thumbnail == HeadObject(ThumbnailPath(song_id), storeUp)
       IN  /\ thumbnail_existence_cache' =
                 (song_id :> has_thumbnail) @@ thumbnail_existence_cache
           /\ entryEpoch' = (song_id :> workerProbeEpoch[w]) @@ entryEpoch
    /\ workerPc' = [workerPc EXCEPT ![w] = "done"]
    /\ UNCHANGED <<now, thumbnail_cache_timestamp, workerSong,
                   workerProbeEpoch, resets, expiries, ticksLeft>>

\* the request of the thread is over; the thread takes the next one
WorkerReturn(w) ==
    /\ workerPc[w] = "done"
    /\ workerPc' = [workerPc EXCEPT ![w] = "idle"]
    /\ workerSong' = [workerSong EXCEPT ![w] = 0]
    /\ workerProbeEpoch' = [workerProbeEpoch EXCEPT ![w] = 0]
    /\ UNCHANGED <<sharedCache, entryEpoch, resets, expiries, ticksLeft>>

WorkerNext ==
    \/ \E dt \in {1, CacheTTL + 1} : Tick(dt) /\ UNCHANGED outsideWorkers
    \/ \E w \in Workers : CheckAge(w) /\ UNCHANGED outsideWorkers
    \/ \E w \in Workers : ClearCache(w) /\ UNCHANGED outsideWorkers
    \/ \E w \in Workers : StampCache(w) /\ UNCHANGED outsideWorkers
    \/ \E w \in Workers, song \in WorkerSongs :
          LookUp(w, song) /\ UNCHANGED outsideWorkers
    \/ \E w \in Workers : StoreVerdict(w) /\ UNCHANGED outsideWorkers
    \/ \E w \in Workers : WorkerReturn(w) /\ UNCHANGED outsideWorkers

WorkerSpec == WorkerInit /\ [][WorkerNext]_vars

\* C23 (as claimed): under any interleaving of concurrent listing requests
\* every entry of the existence map belongs to the current epoch (its probe
\* did not begin before the latest reset), and one expiry causes one reset.
C23_EntriesOfCurrentEpochOneReset ==
    /\ \A id \in DOMAIN thumbnail_existence_cache : entryEpoch[id] = resets
    /\ resets <= expiries

----------------------------------------------------------------------------
(* Concurrent api_get_thumbnail calls: state machine.  The threads run the
   handler without a lock; a step is one call on the file system or the
   download.  The directory is as FillTarget or Capacity sequential requests
   leave it. *)

ThumbThreadInit ==
    /\ ListingIdle
    /\ StreamIdle
    /\ KeyIdle
    /\ WorkerIdle
    /\ LikeIdle
    /\ \E n \in {Capacity, FillTarget} :
          /\ cacheDir = FilledDir(n)
          /\ thumbTime = n
          /\ inserted = n
    /\ thumbPc = "idle"
    /\ thumb_song_id = <<>>
    /\ dirAtLookup = EmptyDir
    /\ dirAtSweep = EmptyDir
    /\ removedBySweep = {}
    /\ thumbResponse = NoThumbnailResponse
    /\ fetchOutcome = ""
    /\ downloadKey = <<>>
    /\ fillLeft = 0
    /\ filling = FALSE
    /\ thumbRequestsLeft = 0
    /\ threadPc = [t \in Workers |-> "idle"]
    /\ threadSongId = [t \in Workers |-> <<>>]
    /\ threadResponse = [t \in Workers |-> NoThumbnailResponse]
    /\ threadRemoved = [t \in Workers |-> {}]
    /\ threadsLeft = MaxThreadRequests

\* lines 553-588: the request arrives; the directory is listed and trimmed
ThreadSweep(t, id) ==
    /\ threadPc[t] = "idle"
    /\ threadsLeft > 0
    /\ threadsLeft' = threadsLeft - 1
    /\ threadSongId' = [threadSongId EXCEPT ![t] = id]
    /\ threadResponse' = [threadResponse EXCEPT ![t] = NoThumbnailResponse]
    /\ \E removed \in {FilesToRemove(cacheDir)} :
          /\ threadRemoved' = [threadRemoved EXCEPT ![t] = removed]
          /\ cacheDir' = IF removed = {} THEN cacheDir
                         ELSE RemoveFiles(cacheDir, removed)
    /\ threadPc' = [threadPc EXCEPT ![t] = "exists"]
    /\ UNCHANGED thumbTime

\* line 591: os.path.exists(cache_path)
ThreadExists(t) ==
    /\ threadPc[t] = "exists"
    /\ threadPc' = [threadPc EXCEPT ![t] =
          IF threadSongId[t] \in DOMAIN cacheDir THEN "getmtime"
          ELSE "download"]
    /\ UNCHANGED <<sharedDir, threadSongId, threadResponse, threadRemoved,
                   threadsLeft>>

\* lines 593-595: os.path.getmtime(cache_path), outside every try block
ThreadGetMtime(t) ==
    /\ threadPc[t] = "getmtime"
    /\ IF threadSongId[t] \notin DOMAIN cacheDir
       THEN /\ threadResponse' = [threadResponse EXCEPT ![t] = UnhandledError]
            /\ threadPc' = [threadPc EXCEPT ![t] = "done"]
       ELSE /\ threadPc' = [threadPc EXCEPT ![t] =
                  IF IsFresh(thumbTime - cacheDir[threadSongId[t]].mtime)
                  THEN "send_file" ELSE "download"]
            /\ UNCHANGED threadResponse
    /\ UNCHANGED <<sharedDir, threadSongId, threadRemoved, threadsLeft>>

\* line 598: send_file(cache_path), outside every try block
ThreadSendFile(t) ==
    /\ threadPc[t] = "send_file"
    /\ threadResponse' = [threadResponse EXCEPT ![t] =
          IF threadSongId[t] \in DOMAIN cacheDir
          THEN ThumbnailResponse("cache", cacheDir[threadSongId[t]].content)
          ELSE UnhandledError]
    /\ threadPc' = [threadPc EXCEPT ![t] = "done"]
    /\ UNCHANGED <<sharedDir, threadSongId, threadRemoved, threadsLeft>>

\* lines 618-634: the download and, on status 200, the write of the file;
\* lines 638-665: otherwise the placeholder
ThreadDownload(t, outcome) ==
    /\ threadPc[t] = "download"
    /\ IF outcome \in {"v1", "v2"}
       THEN /\ cacheDir' = PutFile(cacheDir, threadSongId[t], thumbTime + 1,
                                   outcome)
            /\ thumbTime' = thumbTime + 1
            /\ threadPc' = [threadPc EXCEPT ![t] = "send_fetched"]
            /\ UNCHANGED threadResponse
       ELSE /\ threadResponse' = [threadResponse EXCEPT ![t] =
                  ThumbnailResponse("placeholder", "placeholder")]
            /\ threadPc' = [threadPc EXCEPT ![t] = "done"]
            /\ UNCHANGED sharedDir
    /\ UNCHANGED <<threadSongId, threadRemoved, threadsLeft>>

\* line 637: send_file(cache_path) inside the try blocks; an exception ends
\* in the placeholder (lines 644-665)
ThreadSendFetched(t) ==
    /\ threadPc[t] = "send_fetched"
    /\ threadResponse' = [threadResponse EXCEPT ![t] =
          IF threadSongId[t] \in DOMAIN cacheDir
          THEN ThumbnailResponse("fetched", cacheDir[threadSongId[t]].content)
          ELSE ThumbnailResponse("placeholder", "placeholder")]
    /\ threadPc' = [threadPc EXCEPT ![t] = "done"]
    /\ UNCHANGED <<sharedDir, threadSongId, threadRemoved, threadsLeft>>

\* the response is sent; the thread takes the next request
ThreadReturn(t) ==
    /\ threadPc[t] = "done"
    /\ threadPc' = [threadPc EXCEPT ![t] = "idle"]
    /\ threadSongId' = [threadSongId EXCEPT ![t] = <<>>]
    /\ threadResponse' = [threadResponse EXCEPT ![t] = NoThumbnailResponse]
    /\ threadRemoved' = [threadRemoved EXCEPT ![t] = {}]
    /\ UNCHANGED <<sharedDir, threadsLeft>>

ThumbThreadNext ==
    \/ \E t \in Workers, id \in ThreadIds :
          ThreadSweep(t, id) /\ UNCHANGED outsideThumbThreads
    \/ \E t \in Workers : ThreadExists(t) /\ UNCHANGED outsideThumbThreads
    \/ \E t \in Workers : ThreadGetMtime(t) /\ UNCHANGED outsideThumbThreads
    \/ \E t \in Workers : ThreadSendFile(t) /\ UNCHANGED outsideThumbThreads
    \/ \E t \in Workers, outcome \in {"v1", "missing"} :
          ThreadDownload(t, outcome) /\ UNCHANGED outsideThumbThreads
    \/ \E t \in Workers : ThreadSendFetched(t) /\ UNCHANGED outsideThumbThreads
    \/ \E t \in Workers : ThreadReturn(t) /\ UNCHANGED outsideThumbThreads

ThumbThreadSpec == ThumbThreadInit /\ [][ThumbThreadNext]_vars

\* C24 (as claimed): under any interleaving of concurrent thumbnail requests
\* every request is answered with an image: from the cache, downloaded, or
\* the placeholder; the sweep of one request does not make another fail.
C24_SweepNeverFailsAnotherRequest ==
    \A t \in Workers :
       threadPc[t] = "done"
           => threadResponse[t].source \in {"cache", "fetched", "placeholder"}

----------------------------------------------------------------------------
(* like_song and unlike_song: state machine.  The requests are
   authenticated; each runs on its own thread, and a step is one query on
   table liked_songs.  Table songs does not change, so the lookups in it are
   part of the first step of a request. *)

LikeInit ==
    /\ ListingIdle
    /\ StreamIdle
    /\ ThumbIdle
    /\ KeyIdle
    /\ WorkerIdle
    /\ ThumbThreadIdle
    /\ liked_songs = {}
    /\ nextRowId = 1
    /\ pairIsUnique \in BOOLEAN
    /\ likePc = [t \in Workers |-> "idle"]
    /\ likeRequest = [t \in Workers |-> NoLikeRequest]
    /\ found_song_id = [t \in Workers |-> <<>>]
    /\ likeResponse = [t \in Workers |-> NoLikeResponse]
    /\ lastLike = [t \in Workers |-> NoLike]
    /\ likesLeft = MaxLikeRequests

\* like_song, lines 770-855: the song is looked for in table songs
LikeSong(t, user_id, song_id) ==
    /\ likePc[t] = "idle"
    /\ likesLeft > 0
    /\ likesLeft' = likesLeft - 1
    /\ likeRequest' = [likeRequest EXCEPT ![t] =
                          LikeRequest("like", user_id, song_id)]
    /\ IF FoundSongIds(song_id) = {}
       THEN /\ likeResponse' = [likeResponse EXCEPT ![t] =
                  LikeResponse(404, "Song not found in database")]
            /\ likePc' = [likePc EXCEPT ![t] = "done"]
            /\ UNCHANGED found_song_id
       ELSE /\ \E id \in FoundSongIds(song_id) :
                  found_song_id' = [found_song_id EXCEPT ![t] = id]
            /\ likeResponse' = [likeResponse EXCEPT ![t] = NoLikeResponse]
            /\ likePc' = [likePc EXCEPT ![t] = "check"]
    /\ UNCHANGED <<liked_songs, nextRowId, pairIsUnique, lastLike>>

\* like_song, lines 858-866: is the song already liked by the user
ExistingCheck(t) ==
    /\ likePc[t] = "check"
    /\ IF RowsOf(liked_songs, likeRequest[t].user_id, found_song_id[t]) # {}
       THEN /\ likeResponse' = [likeResponse EXCEPT ![t] =
                  LikeResponse(200, "Song is already in liked songs")]
            /\ likePc' = [likePc EXCEPT ![t] = "done"]
       ELSE /\ likePc' = [likePc EXCEPT ![t] = "insert"]
            /\ UNCHANGED likeResponse
    /\ UNCHANGED <<liked_songs, nextRowId, pairIsUnique, likeRequest,
                   found_song_id, lastLike, likesLeft>>

\* like_song, lines 869-884: insert; a table that keeps pairs unique raises
\* on a second row, which is answered 500
InsertLikedSong(t) ==
    /\ likePc[t] = "insert"
    /\ IF /\ pairIsUnique
          /\ RowsOf(liked_songs, likeRequest[t].user_id, found_song_id[t]) # {}
       THEN /\ likeResponse' = [likeResponse EXCEPT ![t] =
                  LikeResponse(500, "Database error")]
            /\ UNCHANGED <<liked_songs, nextRowId, lastLike>>
       ELSE /\ liked_songs' = liked_songs \cup
                  {LikedSong(nextRowId, likeRequest[t].user_id,
                             found_song_id[t])}
            /\ nextRowId' = nextRowId + 1
            /\ lastLike' = [lastLike EXCEPT ![t] =
                  [request |-> likeRequest[t], row |-> nextRowId]]
            /\ likeResponse' = [likeResponse EXCEPT ![t] =
                  LikeResponse(200, "Song added to liked songs")]
    /\ likePc' = [likePc EXCEPT ![t] = "done"]
    /\ UNCHANGED <<pairIsUnique, likeRequest, found_song_id, likesLeft>>

\* unlike_song, lines 891-959
UnlikeSong(t, user_id, song_id) ==
    /\ likePc[t] = "idle"
    /\ likesLeft > 0
    /\ likesLeft' = likesLeft - 1
    /\ likeRequest' = [likeRequest EXCEPT ![t] =
                          LikeRequest("unlike", user_id, song_id)]
    /\ liked_songs' = liked_songs \
                         RowsOf(liked_songs, user_id, UnlikeSongId(song_id))
    /\ likeResponse' = [likeResponse EXCEPT ![t] =
          IF RowsOf(liked_songs, user_id, UnlikeSongId(song_id)) # {}
          THEN LikeResponse(200, "Song removed from liked songs")
          ELSE LikeResponse(200, "No liked song record found to delete")]
    /\ likePc' = [likePc EXCEPT ![t] = "done"]
    /\ UNCHANGED <<nextRowId, pairIsUnique, found_song_id, lastLike>>

\* the response is sent; the thread takes the next request
LikeReturn(t) ==
    /\ likePc[t] = "done"
    /\ likePc' = [likePc EXCEPT ![t] = "idle"]
    /\ likeRequest' = [likeRequest EXCEPT ![t] = NoLikeRequest]
    /\ found_song_id' = [found_song_id EXCEPT ![t] = <<>>]
    /\ likeResponse' = [likeResponse EXCEPT ![t] = NoLikeResponse]
    /\ lastLike' = [lastLike EXCEPT ![t] =
          IF likeRequest[t].kind = "unlike" THEN NoLike ELSE @]
    /\ UNCHANGED <<liked_songs, nextRowId, pairIsUnique, likesLeft>>

LikeNext ==
    \/ \E t \in Workers, user_id \in Users, song_id \in LikeSongIds :
          LikeSong(t, user_id, song_id) /\ UNCHANGED outsideLikes
    \/ \E t \in Workers : ExistingCheck(t) /\ UNCHANGED outsideLikes
    \/ \E t \in Workers : InsertLikedSong(t) /\ UNCHANGED outsideLikes
    \/ \E t \in Workers, user_id \in Users, song_id \in LikeSongIds :
          UnlikeSong(t, user_id, song_id) /\ UNCHANGED outsideLikes
    \/ \E t \in Workers : LikeReturn(t) /\ UNCHANGED outsideLikes

LikeSpec == LikeInit /\ [][LikeNext]_vars

\* C29 (as claimed): after any interleaving of like and unlike requests the
\* table holds at most one row per user and song, also when two like
\* requests for the same pair overlap.
C29_OneRowPerUserAndSong ==
    \A r1 \in liked_songs, r2 \in liked_songs :
       (r1.user_id = r2.user_id /\ r1.song_id = r2.song_id) => r1 = r2

\* the thread has answered an unlike request that follows its like with
\* the same user and songId, the like having inserted a row
UnlikedAfterLike(t) ==
    /\ likePc[t] = "done"
    /\ likeRequest[t].kind = "unlike"
    /\ lastLike[t] # NoLike
    /\ lastLike[t].request.user_id = likeRequest[t].user_id
    /\ lastLike[t].request.song_id = likeRequest[t].song_id

\* C30 (as claimed): for every songId that like_song accepts, a like
\* followed by an unlike with the same user and songId leaves no row that
\* the like created.
C30_UnlikeRemovesRowOfLike ==
    \A t \in Workers :
       UnlikedAfterLike(t)
           => \A row \in liked_songs : row.id # lastLike[t].row

====
